---------------------------- MODULE Spec2Model ----------------------------
(***************************************************************************)
(* QARAG backend: document ingestion, the PostgreSQL document store and    *)
(* its lexical search, and the chat turn's source aggregation.             *)
(*                                                                         *)
(* Store statements (execute_sql / fetch_sql / fetchone_sql) are the       *)
(* suspension points of the asyncio handlers: each statement is one step,  *)
(* and each statement may raise (asyncpg error).  Synchronous code between *)
(* two awaits is folded into a neighbouring step unless it touches shared  *)
(* state of its own (the documents/ directory).                            *)
(***************************************************************************)
EXTENDS Integers, Sequences, FiniteSets, TLC

VARIABLES
    documents,        \* table documents: doc id -> [status, chunk_count]
    document_chunks,  \* table document_chunks: set of rows
    files,            \* doc ids that have a directory documents/<doc_id>
    task,             \* per doc id: the ingestion attempt (background task or store call)
    del,              \* per doc id: position of a DELETE /documents/{id} request
    search,           \* the last document_store.search call and what it returned
    conversations,    \* chat.conversations: conversation id -> messages
    turn,             \* per request slot: the chat turn being served
    confidence,       \* a calculate_confidence_score call and what it returned
    reply,            \* the last reply to a request that is no chat turn
    chunking,         \* a text handed to _clean_text and _chunk_text, and the chunks
    planner,          \* a plan_web_search call: the model's reply and the plan
    pool,             \* database._pool, the pools created, and the store operations
    snippets          \* a content turned into the snippet of a Source

ingestVars == <<documents, document_chunks, files, task, del>>
auxVars == <<search, conversations, turn, confidence, reply, chunking,
             planner, pool, snippets>>
\* What a chat turn leaves alone.
chatFrame == <<documents, document_chunks, files, task, del, search,
               confidence, reply, chunking, planner, pool, snippets>>
vars == <<documents, document_chunks, files, task, del, search,
          conversations, turn, confidence, reply, chunking, planner, pool, snippets>>

-----------------------------------------------------------------------------
(* Bounds *)

\* Longest chunk list one ingestion produces.
MaxChunks == 2

\* Ingestion attempts per document id: the upload's background task, then
\* further add_document_chunks calls for the same id.
MaxAttempts == 2

\* Document ids (uuid4 strings; ordered as text, here as numbers).
DocIds == {1, 2}

\* Ids the upload endpoints hand out while ingestion is running.
IngestIds == {1}

\* Chunk contents an ingestion can produce (character sequences).
IngestTexts ==
    { <<"c","a","t">>, <<"1","9","5","0">> }

ChunkLists == UNION { [1..n -> IngestTexts] : n \in 0..MaxChunks }

\* Largest n_results of a search.
MaxLimit == 2

\* Chunk contents of the stores that searches run against:
\* "A cat", "cat", "1950".
SearchTexts ==
    { <<"A"," ","c","a","t">>, <<"c","a","t">>, <<"1","9","5","0">> }

SearchChunkLists == UNION { [1..n -> SearchTexts] : n \in 0..MaxChunks }

\* Queries: "cat", "a cat", "the CAT", "tell me", "50%", " ".
Queries ==
    { <<"c","a","t">>,
      <<"a"," ","c","a","t">>,
      <<"t","h","e"," ","C","A","T">>,
      <<"t","e","l","l"," ","m","e">>,
      <<"5","0","%">>,
      <<" ">> }

\* doc_ids arguments: None, [], and every non-empty list.
Scopes == { [none |-> TRUE, ids |-> {}] }
            \cup { [none |-> FALSE, ids |-> S] : S \in SUBSET DocIds }

-----------------------------------------------------------------------------
(* Text: character sequences *)

LowerCase ==
    <<"a","b","c","d","e","f","g","h","i","j","k","l","m",
      "n","o","p","q","r","s","t","u","v","w","x","y","z">>

UpperCase ==
    <<"A","B","C","D","E","F","G","H","I","J","K","L","M",
      "N","O","P","Q","R","S","T","U","V","W","X","Y","Z">>

Digits == {"0","1","2","3","4","5","6","7","8","9"}

Range(f) == { f[i] : i \in DOMAIN f }

Min(a, b) == IF a <= b THEN a ELSE b

\* str.lower() / the case folding of ILIKE, on ASCII letters.
Lower(c) ==
    IF \E i \in 1..26 : UpperCase[i] = c
    THEN LowerCase[CHOOSE i \in 1..26 : UpperCase[i] = c]
    ELSE c

LowerText(s) == [i \in 1..Len(s) |-> Lower(s[i])]

IsSpace(c) == c \in {" ", "\t", "\n"}

RECURSIVE StripLeft(_)
StripLeft(s) ==
    IF s # <<>> /\ IsSpace(Head(s)) THEN StripLeft(Tail(s)) ELSE s

RECURSIVE StripRight(_)
StripRight(s) ==
    IF s # <<>> /\ IsSpace(s[Len(s)])
    THEN StripRight(SubSeq(s, 1, Len(s) - 1))
    ELSE s

\* str.strip()
Strip(s) == StripRight(StripLeft(s))

\* q occurs in s as a contiguous run of characters.
IsSubstring(q, s) ==
    \E i \in 0..(Len(s) - Len(q)) : SubSeq(s, i + 1, i + Len(q)) = q

\* PostgreSQL LIKE on an already case-folded text and pattern: % matches any
\* run of characters, _ any one character, backslash takes the next pattern
\* character literally.  (A pattern ending in a lone backslash is an error in
\* PostgreSQL; here it matches nothing.)
RECURSIVE LikeMatch(_, _)
LikeMatch(s, p) ==
    IF p = <<>> THEN s = <<>>
    ELSE IF Head(p) = "%"
         THEN LikeMatch(s, Tail(p)) \/ (s # <<>> /\ LikeMatch(Tail(s), p))
    ELSE IF Head(p) = "_"
         THEN s # <<>> /\ LikeMatch(Tail(s), Tail(p))
    ELSE IF Head(p) = "\\"
         THEN /\ Len(p) >= 2
              /\ s # <<>>
              /\ Head(s) = p[2]
              /\ LikeMatch(Tail(s), Tail(Tail(p)))
    ELSE s # <<>> /\ Head(s) = Head(p) /\ LikeMatch(Tail(s), Tail(p))

\* content ILIKE '%' || x || '%'
ContentILike(content, x) ==
    LikeMatch(LowerText(content), <<"%">> \o LowerText(x) \o <<"%">>)

\* document_store._STOP_WORDS
STOP_WORDS == {
    <<"a">>, <<"a","n">>, <<"a","n","d">>, <<"a","r","e">>, <<"a","s">>,
    <<"a","t">>, <<"b","e">>, <<"b","u","t">>, <<"b","y">>, <<"c","a","n">>,
    <<"c","o","u","l","d">>, <<"d","i","d">>, <<"d","o">>,
    <<"d","o","e","s">>, <<"f","o","r">>, <<"f","r","o","m">>,
    <<"g","e","t">>, <<"g","i","v","e">>, <<"h","o","w">>, <<"i">>,
    <<"i","f">>, <<"i","n">>, <<"i","s">>, <<"i","t">>, <<"i","t","s">>,
    <<"m","e">>, <<"m","y">>, <<"o","f">>, <<"o","n">>, <<"o","r">>,
    <<"o","u","r">>, <<"p","l","e","a","s","e">>, <<"s","h","o","w">>,
    <<"t","e","l","l">>, <<"t","h","a","t">>, <<"t","h","e">>,
    <<"t","h","e","i","r">>, <<"t","h","e","m">>, <<"t","h","i","s">>,
    <<"t","o">>, <<"u","s">>, <<"w","a","s">>, <<"w","e">>,
    <<"w","h","a","t">>, <<"w","h","e","n">>, <<"w","h","e","r","e">>,
    <<"w","h","i","c","h">>, <<"w","h","o">>, <<"w","h","y">>,
    <<"w","i","t","h">>, <<"y","o","u">>, <<"y","o","u","r">>,
    <<"d","o","c">>, <<"d","o","c","s">>,
    <<"d","o","c","u","m","e","n","t">>,
    <<"d","o","c","u","m","e","n","t","s">> }

\* len(token) < 3: shorter tokens are dropped.
MinTermLen == 3

\* terms[:12]
MaxTerms == 12

IsAlnum(c) == (\E i \in 1..26 : LowerCase[i] = c) \/ c \in Digits

\* re.findall(r"[a-z0-9]+", text): the maximal runs, left to right.
RECURSIVE FindTokens(_, _)
FindTokens(s, cur) ==
    IF s = <<>> THEN (IF cur = <<>> THEN <<>> ELSE <<cur>>)
    ELSE IF IsAlnum(Head(s)) THEN FindTokens(Tail(s), Append(cur, Head(s)))
    ELSE (IF cur = <<>> THEN <<>> ELSE <<cur>>) \o FindTokens(Tail(s), <<>>)

RECURSIVE KeepTerms(_, _)
KeepTerms(tokens, terms) ==
    IF tokens = <<>> THEN terms
    ELSE LET token == Head(tokens)
         IN IF Len(token) < MinTermLen \/ token \in STOP_WORDS
            THEN KeepTerms(Tail(tokens), terms)
            ELSE IF token \in Range(terms)
                 THEN KeepTerms(Tail(tokens), terms)
                 ELSE KeepTerms(Tail(tokens), Append(terms, token))

\* SimpleDocumentStore._extract_query_terms
extract_query_terms(query) ==
    LET terms == KeepTerms(FindTokens(LowerText(query), <<>>), <<>>)
    IN SubSeq(terms, 1, Min(MaxTerms, Len(terms)))

-----------------------------------------------------------------------------
(* SimpleDocumentStore.search *)

\* rank_score values, in hundredths.
ScoreExact == 100

ScoreTerm == 70

ScoreFallback == 45

\* Snippet length.
SnippetLen == 500

\* The doc_ids argument: None, or a list (used as a set by = ANY($n)).
NoScope == [none |-> TRUE, ids |-> {}]

Scope(ids) == [none |-> FALSE, ids |-> ids]

NoSearch == [called |-> FALSE]

ScoredRow(r, score) ==
    [doc_id |-> r.doc_id, chunk_index |-> r.chunk_index,
     content |-> r.content, rank_score |-> score]

\* The WHERE clause of the lexical statement, without the document filter.
LexicalMatch(content, query_text, query_terms) ==
    \/ ContentILike(content, query_text)
    \/ \E t \in Range(query_terms) : ContentILike(content, t)

\* CASE WHEN dc.content ILIKE '%' || $1 || '%' THEN 1.0 ELSE 0.7 END
RankScore(content, query_text) ==
    IF ContentILike(content, query_text) THEN ScoreExact ELSE ScoreTerm

\* FROM document_chunks dc JOIN documents d ON dc.doc_id = d.id
\* WHERE [dc.doc_id = ANY(doc_ids) AND] (lexical match)
LexicalCandidates(docs, chunks, query_text, query_terms, scope) ==
    { ScoredRow(r, RankScore(r.content, query_text)) :
        r \in { x \in chunks :
                  /\ x.doc_id \in DOMAIN docs
                  /\ scope.none \/ x.doc_id \in scope.ids
                  /\ LexicalMatch(x.content, query_text, query_terms) } }

\* Mutant: ORDER BY rank_score DESC alone.
LexicalOrder_ScoreOnly(a, b) == a.rank_score >= b.rank_score

\* ORDER BY rank_score DESC, dc.chunk_index ASC
LexicalOrder(a, b) ==
    \/ a.rank_score > b.rank_score
    \/ a.rank_score = b.rank_score /\ a.chunk_index <= b.chunk_index

\* ORDER BY dc.doc_id ASC, dc.chunk_index ASC
FallbackOrder(a, b) ==
    \/ a.doc_id < b.doc_id
    \/ a.doc_id = b.doc_id /\ a.chunk_index <= b.chunk_index

\* The ORDER BY clause of a statement, named by its tier.
InOrder(tier, a, b) ==
    IF tier = "lexical" THEN LexicalOrder(a, b) ELSE FallbackOrder(a, b)

\* ORDER BY ... LIMIT n: every row sequence the statement may return.  Rows
\* that compare equal come in an order the database chooses.
OrderLimit(cands, n, tier) ==
    LET k == Min(n, Cardinality(cands))
    IN { s \in [1..k -> cands] :
           /\ \A i, j \in 1..k :
                 i < j => s[i] # s[j] /\ InOrder(tier, s[i], s[j])
           /\ \A c \in cands \ Range(s) :
                 \A i \in 1..k : InOrder(tier, s[i], c) }

\* Mutant: the fallback statement without its doc_id filter.
fetch_fallback_chunks_Unscoped(docs, chunks, doc_ids, n_results) ==
    OrderLimit({ ScoredRow(r, ScoreFallback) :
                   r \in { x \in chunks : x.doc_id \in DOMAIN docs } },
               n_results, "fallback")

\* SimpleDocumentStore._fetch_fallback_chunks
fetch_fallback_chunks(docs, chunks, doc_ids, n_results) ==
    OrderLimit({ ScoredRow(r, ScoreFallback) :
                   r \in { x \in chunks : /\ x.doc_id \in DOMAIN docs
                                          /\ x.doc_id \in doc_ids } },
               n_results, "fallback")

\* content[:500] + "..." if len(content) > 500 else content
Snippet(content) ==
    IF Len(content) > SnippetLen
    THEN SubSeq(content, 1, SnippetLen) \o <<".", ".", ".">>
    ELSE content

\* SimpleDocumentStore._rows_to_sources
rows_to_sources(rows) ==
    [i \in 1..Len(rows) |->
        [source_type |-> "internal_document",
         document_id |-> rows[i].doc_id,
         url |-> <<>>,
         snippet |-> Snippet(rows[i].content),
         relevance_score |-> rows[i].rank_score]]

\* Mutant: `if doc_ids:` in place of `if doc_ids is not None:`, so that an
\* empty list is searched like no list.
SearchRows_Truthy(docs, chunks, query, n_results, scope) ==
    LET query_text == Strip(query)
        query_terms == extract_query_terms(query_text)
        truthy == IF scope.ids = {} THEN NoScope ELSE scope
        lexical == OrderLimit(LexicalCandidates(docs, chunks, query_text,
                                                query_terms, truthy),
                              n_results, "lexical")
    IN IF ~truthy.none /\ lexical = { <<>> }
       THEN fetch_fallback_chunks(docs, chunks, scope.ids, n_results)
       ELSE lexical

\* The rows search() converts to sources: every outcome of its statements.
SearchRows(docs, chunks, query, n_results, scope) ==
    LET query_text == Strip(query)
        query_terms == extract_query_terms(query_text)
        lexical == OrderLimit(LexicalCandidates(docs, chunks, query_text,
                                                query_terms, scope),
                              n_results, "lexical")
    IN IF ~scope.none
       THEN IF scope.ids = {}
            THEN { <<>> }
            ELSE IF lexical # { <<>> }
                 THEN lexical
                 ELSE fetch_fallback_chunks(docs, chunks, scope.ids, n_results)
       ELSE lexical

-----------------------------------------------------------------------------
(* Chat turns: POST /chat/ and POST /chat/stream *)

\* Source.document_id = None (web sources).
NoDocumentId == 0

\* relevance_score of a provider result that carries no score.
DefaultWebScore == 50

\* relevance_score of a directly extracted URL.
ExtractScore == 100

\* internal_threshold when web search ran and returned sources.
ThresholdStrong == 75

\* internal_threshold otherwise, and the threshold of web sources.
ThresholdWeak == 40

\* min(n_results, 10)
TavilyMaxResults == 10

\* "I apologize, but I encountered an error while generating a response.
\* Please try again."
Apology ==
    <<"I"," ","a","p","o","l","o","g","i","z","e",","," ","b","u","t"," ",
        "I"," ","e","n","c","o","u","n","t","e","r","e","d"," ","a","n"," ",
            "e","r","r","o","r"," ","w","h","i","l","e"," ","g","e","n","e",
                "r","a","t","i","n","g"," ","a"," ","r","e","s","p","o","n",
                    "s","e","."," ","P","l","e","a","s","e"," ","t","r","y",
                        " ","a","g","a","i","n",".">>

StartsWith(s, p) == Len(s) >= Len(p) /\ SubSeq(s, 1, Len(p)) = p

\* The characters the URL body excludes besides whitespace.  The pattern
\* also excludes the grave accent, which no message here contains.
UrlBodyExcluded == { "<", ">", "\"", "{", "}", "|", "\\", "^", "[", "]" }

IsUrlBody(c) == ~IsSpace(c) /\ c \notin UrlBodyExcluded

RECURSIVE UrlBodyLen(_)
UrlBodyLen(s) ==
    IF s = <<>> \/ ~IsUrlBody(Head(s)) THEN 0 ELSE 1 + UrlBodyLen(Tail(s))

\* https?://
SchemeLen(s) ==
    LET https == <<"h","t","t","p","s",":","/","/">>
        http == <<"h","t","t","p",":","/","/">>
    IN IF StartsWith(s, https) THEN Len(https)
       ELSE IF StartsWith(s, http) THEN Len(http)
       ELSE 0

\* re.findall(url_pattern, message): scheme, then one or more body
\* characters; matches are taken left to right without overlap.
RECURSIVE detect_urls(_)
detect_urls(message) ==
    IF message = <<>> THEN <<>>
    ELSE LET k == SchemeLen(message)
             n == UrlBodyLen(SubSeq(message, k + 1, Len(message)))
         IN IF k > 0 /\ n > 0
            THEN <<SubSeq(message, 1, k + n)>>
                   \o detect_urls(SubSeq(message, k + n + 1, Len(message)))
            ELSE detect_urls(Tail(message))

\* \w of the lowered text.
IsWordChar(c) == IsAlnum(c) \/ c = "_"

\* \b between s[i] and s[i+1] (i = 0 and i = Len(s) are the ends).
WordBoundary(s, i) ==
    (i >= 1 /\ IsWordChar(s[i])) # (i < Len(s) /\ IsWordChar(s[i + 1]))

\* re.search(r"\b(p)\b", s) for a literal p.
SearchWord(s, p) ==
    \E i \in 0..(Len(s) - Len(p)) :
        /\ SubSeq(s, i + 1, i + Len(p)) = p
        /\ WordBoundary(s, i)
        /\ WordBoundary(s, i + Len(p))

\* The literals of the five patterns.
HeuristicPatterns ==
    { <<"t","o","d","a","y">>, <<"t","o","d","a","y","'">>, <<"t","o","d",
        "a","y","s">>, <<"t","o","d","a","y","'","s">>,
      <<"l","a","t","e","s","t">>, <<"c","u","r","r","e","n","t">>, <<"r",
          "e","c","e","n","t">>, <<"b","r","e","a","k","i","n","g">>, <<"l",
              "i","v","e">>,
      <<"n","e","w","s">>, <<"h","e","a","d","l","i","n","e">>, <<"h","e",
          "a","d","l","i","n","e","s">>, <<"u","p","d","a","t","e">>, <<"u",
              "p","d","a","t","e","s">>,
      <<"a","s"," ","o","f">>, <<"r","i","g","h","t"," ","n","o","w">>,
      <<"t","h","i","s"," ","w","e","e","k">>, <<"t","h","i","s"," ","m",
          "o","n","t","h">>, <<"t","h","i","s"," ","y","e","a","r">> }

\* LLMService._heuristic_web_search_plan
heuristic_web_search_plan(query) ==
    LET text == Strip(query)
    IN [use |-> \E p \in HeuristicPatterns : SearchWord(LowerText(text), p),
        query |-> text]

\* search_query values a planner decision can carry: none or empty, and a
\* rewrite ("cat news").
DecisionQueries == { <<>>, <<"c","a","t"," ","n","e","w","s">> }

\* LLMService.plan_web_search: every (use_web_search, search_query) the call
\* can return.  The decision of the language model is any boolean with any
\* search_query; a failed call or an unparseable reply gives the heuristic.
plan_web_search(query, conversation_history, has_uploaded_documents) ==
    { heuristic_web_search_plan(query) }
      \cup { [use |-> u,
              query |-> LET s == Strip(IF q = <<>> THEN query ELSE q)
                        IN IF s = <<>> THEN query ELSE s] :
                u \in BOOLEAN, q \in DecisionQueries }

\* Scores the web provider attaches to a result.
ProviderScores == { 30, 40 }

\* Largest max_web_sources of a request.
MaxWeb == 2

WebSource(url, content, score) ==
    [source_type |-> "web_search", document_id |-> NoDocumentId,
     url |-> url,
     snippet |-> SubSeq(content, 1, Min(SnippetLen, Len(content))),
     relevance_score |-> score]

\* TavilySearchService.search: the provider returns at most max_results
\* results, each with or without a score; any error gives [].
tavily_search(query, n_results) ==
    { <<>> } \cup
    UNION { [1..k -> { WebSource(<<"h","t","t","p",":","/","/","w">>, <<"n",
        "e","w","s">>, sc) :
                         sc \in ProviderScores \cup { DefaultWebScore } }] :
              k \in 1..Min(n_results, TavilyMaxResults) }

RECURSIVE Pick(_, _, _)
Pick(s, keep, i) ==
    IF i > Len(s) THEN <<>>
    ELSE (IF i \in keep THEN <<s[i]>> ELSE <<>>) \o Pick(s, keep, i + 1)

\* TavilySearchService.extract: one source per extracted URL (the provider
\* lists failed URLs apart); any error gives [].
tavily_extract(urls) ==
    { [i \in 1..Len(got) |-> WebSource(got[i], <<"p","a","g","e">>,
         ExtractScore)] :
        got \in { Pick(urls, keep, 1) : keep \in SUBSET (1..Len(urls)) } }

\* bool(request.doc_ids)
HasDocIds(doc_ids) == ~doc_ids.none /\ doc_ids.ids # {}

\* Client-chosen conversation ids, and the ids uuid4 can hand out.
ClientConvIds == { "c1" }

UuidPool == { "u1" }

\* Messages: "cat", "latest cat", "tell me", "see http://x".
Messages ==
    { <<"c","a","t">>, <<"l","a","t","e","s","t"," ","c","a","t">>, <<"t",
        "e","l","l"," ","m","e">>, <<"s","e","e"," ","h","t","t","p",":",
            "/","/","x">> }

\* ChatRequest; conversation_id "" stands for None (both are falsy).
Requests ==
    [message : Messages,
     conversation_id : { "" } \cup ClientConvIds,
     max_internal_sources : { 1, MaxLimit },
     max_web_sources : { 1, MaxWeb },
     force_web_search : BOOLEAN,
     doc_ids : Scopes]

\* Answers the language model gives: "ok", or the call fails.
Answers == { <<"o","k">>, Apology }

\* Token streams of a streamed answer: "o" "k"; nothing; and the model call
\* failing at once or after "o" (the apology is yielded where the iteration
\* raised).
TokenStreams ==
    { << <<"o">>, <<"k">> >>, << >>, << Apology >>, << <<"o">>, Apology >> }

TurnIds == { 1, 2 }

\* The slot of a turn served alone.
SoloTurns == { 1 }

\* No plan_web_search call made on a given reply.
NoPlanner ==
    [called |-> FALSE, query |-> <<>>,
     model_reply |-> [raised |-> TRUE, content |-> <<>>],
     raised |-> FALSE, result |-> [use |-> FALSE, query |-> <<>>]]

\* A store operation that has not been called.
NoOp == [pc |-> "idle", pool |-> 0, conn |-> FALSE, runs |-> 0]

\* Store operations that can be in flight together.
MaxOps == 2

Ops == 1..MaxOps

\* database._pool is None (0), no pool was created, no store operation runs,
\* close_pool is not running.
NoPool ==
    [current |-> 0, created |-> 0, total |-> 0, resets |-> 0,
     closing |-> 0, op |-> [o \in Ops |-> NoOp]]

\* No content turned into a snippet.
NoSnippets == [called |-> FALSE, kind |-> "none", content |-> <<>>,
               sources |-> <<>>]

\* No text chunked.
NoChunking == [called |-> FALSE, text |-> <<>>, cleaned |-> <<>>,
               chunks |-> <<>>]

\* No GET or DELETE /conversations/{id} served yet.
NoReply == [n |-> 0, op |-> "none", conversation_id |-> "", status |-> 0,
            messages |-> <<>>]

NoRequest ==
    [message |-> <<>>, conversation_id |-> "", max_internal_sources |-> 0,
     max_web_sources |-> 0, force_web_search |-> FALSE, doc_ids |-> NoScope]

\* No generator call yet.
NoArgs ==
    [query |-> <<>>, internal_sources |-> <<>>, web_sources |-> <<>>,
     conversation_history |-> <<>>, has_uploaded_documents |-> FALSE]

\* No plan_web_search call made.
NoPlan == [called |-> FALSE, use |-> FALSE, query |-> <<>>]

\* planner_use_web, planner_query = llm_service.plan_web_search(...)
Planned(p) == [called |-> TRUE, use |-> p.use, query |-> p.query]

NoTurn ==
    [pc |-> "idle", endpoint |-> "none", request |-> NoRequest,
     conversation_id |-> "", urls |-> <<>>, use_web_search |-> FALSE,
     web_ran |-> FALSE, web_query |-> <<>>, web_sources |-> <<>>,
     searched |-> NoScope,
     internal_sources |-> <<>>, internal_filtered |-> <<>>,
     web_filtered |-> <<>>, all_sources |-> <<>>, history |-> <<>>,
     tokens |-> <<>>, full_response |-> <<>>, events |-> <<>>,
     calls |-> <<>>, failures |-> {}, arrival |-> 0,
     confidence_score |-> [num |-> 0, den |-> 1], generator |-> NoArgs,
     plan |-> NoPlan]

\* request.conversation_id or str(uuid.uuid4())
ConversationIds(request) ==
    IF request.conversation_id # "" THEN { request.conversation_id }
    ELSE UuidPool \ DOMAIN conversations

\* if conversation_id not in conversations: conversations[conversation_id] = []
GetOrCreate(convs, cid) ==
    IF cid \in DOMAIN convs THEN convs
    ELSE [c \in DOMAIN convs \cup { cid } |->
            IF c = cid THEN <<>> ELSE convs[c]]

ChatMessage(role, content) == [role |-> role, content |-> content]

\* Mutant: one message list shared by every conversation id.
AppendMessage_Shared(convs, cid, msg) ==
    [c \in DOMAIN convs |-> Append(convs[c], msg)]

\* conversations[conversation_id].append(message)
AppendMessage(convs, cid, msg) == [convs EXCEPT ![cid] = Append(@, msg)]

\* conversations[conversation_id][:-1]
AllButLast(s) == SubSeq(s, 1, Len(s) - 1)

\* The provider calls that can have failed when a wrapper returned `result`:
\* the wrappers turn an error into [].
ProviderFailures(result, name) ==
    IF result = <<>> THEN { {}, { name } } ELSE { {} }

\* The planner call can have failed when plan_web_search returned the
\* heuristic plan.
PlannerFailures(p, query) ==
    IF p = heuristic_web_search_plan(query)
    THEN { {}, { "plan_web_search" } } ELSE { {} }

\* The outcome of PRIORITY 1 before any call.
NoWeb(urls) ==
    [urls |-> urls, use_web_search |-> FALSE, web_ran |-> FALSE,
     web_query |-> <<>>, web_sources |-> <<>>, calls |-> <<>>,
     failures |-> {}, plan |-> NoPlan]

\* tavily_search_service.extract(urls=urls)
GatherExtract(urls) ==
    UNION { { [NoWeb(urls) EXCEPT !.web_sources = ws,
                                  !.calls = <<"tavily.extract">>,
                                  !.failures = f] :
                f \in ProviderFailures(ws, "tavily.extract") } :
            ws \in tavily_extract(urls) }

\* Mutant: the web search always gets the raw message.
GatherSearch_RawMessage(request, p, planner_failures) ==
    UNION { { [NoWeb(<<>>) EXCEPT
                 !.use_web_search = TRUE, !.web_ran = TRUE,
                 !.web_query = request.message, !.web_sources = ws,
                 !.calls = <<"plan_web_search", "tavily.search">>,
                 !.failures = planner_failures \cup f,
                 !.plan = Planned(p)] :
               f \in ProviderFailures(ws, "tavily.search") } :
            ws \in tavily_search(request.message, request.max_web_sources) }

\* tavily_search_service.search(query=..., n_results=max_web_sources)
GatherSearch(request, p, planner_failures) ==
    LET q == IF p.query # <<>> THEN p.query ELSE request.message
    IN UNION { { [NoWeb(<<>>) EXCEPT
                    !.use_web_search = TRUE, !.web_ran = TRUE,
                    !.web_query = q, !.web_sources = ws,
                    !.calls = <<"plan_web_search", "tavily.search">>,
                    !.plan = Planned(p),
                    !.failures = planner_failures \cup f] :
                  f \in ProviderFailures(ws, "tavily.search") } :
               ws \in tavily_search(q, request.max_web_sources) }

\* Mutant: force_web_search runs the web search whether or not the message
\* carries a URL.
GatherWeb_ForceFirst(request, conversation_history, has_uploaded_documents) ==
    LET urls == detect_urls(request.message)
        plan == [use |-> TRUE, query |-> request.message]
    IN IF urls # <<>> /\ ~request.force_web_search
       THEN GatherExtract(urls)
       ELSE { [g EXCEPT !.urls = urls] : g \in GatherSearch(request, plan, {}) }

\* PRIORITY 1: URL extract, or planner and web search.  Every outcome.
GatherWeb(request, conversation_history, has_uploaded_documents) ==
    LET urls == detect_urls(request.message)
    IN IF urls # <<>>
       THEN GatherExtract(urls)
       ELSE UNION { UNION {
              IF request.force_web_search \/ p.use
              THEN GatherSearch(request, p, pf)
              ELSE { [NoWeb(urls) EXCEPT !.calls = <<"plan_web_search">>,
                                         !.plan = Planned(p),
                                         !.failures = pf] } :
              pf \in PlannerFailures(p, request.message) } :
              p \in plan_web_search(request.message, conversation_history,
                                    has_uploaded_documents) }

\* Mutant: 0.75 whenever web search ran, with or without results.
internal_threshold_WebRan(use_web_search, web_sources) ==
    IF use_web_search THEN ThresholdStrong ELSE ThresholdWeak

\* internal_threshold = 0.75 if (use_web_search and web_sources) else 0.4
internal_threshold(use_web_search, web_sources) ==
    IF use_web_search /\ web_sources # <<>>
    THEN ThresholdStrong ELSE ThresholdWeak

\* [s for s in sources if s.relevance_score >= threshold]
FilterSources(sources, threshold) ==
    SelectSeq(sources, LAMBDA s : s.relevance_score >= threshold)

\* list.sort(key=relevance_score, reverse=True): stable.
RECURSIVE InsertByScore(_, _)
InsertByScore(sorted, s) ==
    IF sorted = <<>> THEN <<s>>
    ELSE IF Head(sorted).relevance_score >= s.relevance_score
         THEN <<Head(sorted)>> \o InsertByScore(Tail(sorted), s)
         ELSE <<s>> \o sorted

RECURSIVE SortByScore(_)
SortByScore(sources) ==
    IF sources = <<>> THEN <<>>
    ELSE InsertByScore(SortByScore(AllButLast(sources)),
                       sources[Len(sources)])

\* "Filter and combine sources"
Aggregate(tn, internal_sources) ==
    LET internal_filtered ==
            FilterSources(internal_sources,
                          internal_threshold(tn.use_web_search, tn.web_sources))
        web_filtered == FilterSources(tn.web_sources, ThresholdWeak)
    IN [tn EXCEPT !.internal_sources = internal_sources,
                  !.internal_filtered = internal_filtered,
                  !.web_filtered = web_filtered,
                  !.all_sources =
                      SortByScore(internal_filtered \o web_filtered)]

\* relevance_score * 1.2 and * 0.8, in tenths.
InternalWeight == 12

WebWeight == 8

\* min(avg_score, 1.0), in thousandths.
ConfidenceCap == 1000

NoConfidence == [called |-> FALSE]

\* scores.append(source.relevance_score * weight); sum(scores).  Scores are
\* hundredths and weights tenths, so the sum counts thousandths.
RECURSIVE SumScores(_, _)
SumScores(sources, weight) ==
    IF sources = <<>> THEN 0
    ELSE Head(sources).relevance_score * weight
           + SumScores(Tail(sources), weight)

\* Mutant: the plain mean, without the 1.2 and 0.8 weights.
calculate_confidence_score_Mean(internal_sources, web_sources) ==
    LET n == Len(internal_sources) + Len(web_sources)
        total == SumScores(internal_sources, 10) + SumScores(web_sources, 10)
    IN IF n = 0 THEN [num |-> 0, den |-> 1]
       ELSE IF total >= ConfidenceCap * n THEN [num |-> ConfidenceCap, den |-> 1]
       ELSE [num |-> total, den |-> n]

\* Mutant: the weighted mean without the cap.
calculate_confidence_score_NoCap(internal_sources, web_sources) ==
    LET n == Len(internal_sources) + Len(web_sources)
        total == SumScores(internal_sources, InternalWeight)
                   + SumScores(web_sources, WebWeight)
    IN IF n = 0 THEN [num |-> 0, den |-> 1] ELSE [num |-> total, den |-> n]

\* LLMService.calculate_confidence_score: the value num/den thousandths.
\* The source computes in binary floating point; the model is exact.
calculate_confidence_score(internal_sources, web_sources) ==
    LET n == Len(internal_sources) + Len(web_sources)
        total == SumScores(internal_sources, InternalWeight)
                   + SumScores(web_sources, WebWeight)
    IN IF n = 0 THEN [num |-> 0, den |-> 1]
       ELSE IF total >= ConfidenceCap * n THEN [num |-> ConfidenceCap, den |-> 1]
       ELSE [num |-> total, den |-> n]

\* The doc_ids an endpoint hands to document_store.search.  chat() passes
\* doc_ids only `if request.doc_ids:`; the stream passes
\* `request.doc_ids if request.doc_ids is not None else []`.
SearchScope(endpoint, doc_ids) ==
    IF endpoint = "chat"
    THEN IF HasDocIds(doc_ids) THEN doc_ids ELSE NoScope
    ELSE IF doc_ids.none THEN Scope({}) ELSE doc_ids

\* has_uploaded_documents: bool(request.doc_ids), bool(thread_doc_ids).
HasUploaded(endpoint, doc_ids) ==
    IF endpoint = "chat" THEN HasDocIds(doc_ids)
    ELSE HasDocIds(SearchScope("stream", doc_ids))

\* Mutant: a failed planner, web-search or extract call raises out of the
\* handler.
Gathered_Raise(endpoint, request, cid, convs, searched, events) ==
    { [NoTurn EXCEPT !.pc = IF g.failures = {} THEN "search" ELSE "error",
                     !.endpoint = endpoint,
                     !.request = request, !.conversation_id = cid,
                     !.urls = g.urls, !.use_web_search = g.use_web_search,
                     !.plan = g.plan,
                     !.web_ran = g.web_ran,
                     !.calls = g.calls, !.failures = g.failures,
                     !.web_query = g.web_query, !.web_sources = g.web_sources,
                     !.searched = searched,
                     !.history = AllButLast(convs[cid]),
                     !.events = events] :
        g \in GatherWeb(request, AllButLast(convs[cid]),
                        HasUploaded(endpoint, request.doc_ids)) }

\* The turn up to `await document_store.search(...)`.
Gathered(endpoint, request, cid, convs, searched, events) ==
    { [NoTurn EXCEPT !.pc = "search", !.endpoint = endpoint,
                     !.request = request, !.conversation_id = cid,
                     !.urls = g.urls, !.use_web_search = g.use_web_search,
                     !.plan = g.plan,
                     !.web_ran = g.web_ran,
                     !.calls = g.calls, !.failures = g.failures,
                     !.web_query = g.web_query, !.web_sources = g.web_sources,
                     !.searched = searched,
                     !.history = AllButLast(convs[cid]),
                     !.events = events] :
        g \in GatherWeb(request, AllButLast(convs[cid]),
                        HasUploaded(endpoint, request.doc_ids)) }

\* The turn after the internal search returned `rows`.
Searched(tn, rows) ==
    [Aggregate(tn, rows_to_sources(rows)) EXCEPT
        !.calls = Append(@, "document_store.search")]

\* The arguments of generate_response / stream_response, read when the
\* call is made.
GeneratorArgs(tn, convs) ==
    [query |-> tn.request.message,
     internal_sources |-> tn.internal_filtered,
     web_sources |-> tn.web_filtered,
     conversation_history |-> AllButLast(convs[tn.conversation_id]),
     has_uploaded_documents |-> HasUploaded(tn.endpoint, tn.request.doc_ids)]

\* The turn after the generator was called.
Generating(tn, convs, name) ==
    [tn EXCEPT !.generator = GeneratorArgs(tn, convs),
               !.calls = Append(@, name)]

\* The n-th request to arrive (n counts from 1).
Arrival == 1 + Cardinality({ u \in TurnIds : turn[u].pc # "idle" })

\* chat(): from the request to the await of the internal search.
chat_request(t, request) ==
    /\ turn[t].pc = "idle"
    /\ \E cid \in ConversationIds(request) :
         LET convs == AppendMessage(GetOrCreate(conversations, cid), cid,
                                    ChatMessage("user", request.message))
         IN /\ conversations' = convs
            /\ \E tn \in Gathered("chat", request, cid, convs,
                                  SearchScope("chat", request.doc_ids), <<>>) :
                 turn' = [turn EXCEPT ![t] = [tn EXCEPT !.arrival = Arrival]]
    /\ UNCHANGED chatFrame

chat_begin(t) ==
    /\ turn[t].pc = "idle"
    /\ \E request \in Requests : chat_request(t, request)

\* generate_response returns the apology when the model call failed.
GenerateFailure(answer) ==
    IF answer = Apology THEN { "generate_response" } ELSE {}

\* chat(): the search returned; filter, merge, answer, reply.
chat_finish(t) ==
    /\ turn[t].pc = "search"
    /\ turn[t].endpoint = "chat"
    /\ turn[t].conversation_id \in DOMAIN conversations
    /\ \E rows \in SearchRows(documents, document_chunks,
                              turn[t].request.message,
                              turn[t].request.max_internal_sources,
                              turn[t].searched) :
       \E answer \in Answers :
       \E tn \in { Generating(Searched(turn[t], rows), conversations,
                              "generate_response") } :
       \E confidence_score \in
              { calculate_confidence_score(tn.internal_filtered,
                                           tn.web_filtered) } :
            /\ conversations' =
                 AppendMessage(conversations, tn.conversation_id,
                               ChatMessage("assistant", answer))
            /\ turn' = [turn EXCEPT ![t] =
                 [tn EXCEPT !.pc = "done",
                            !.full_response = answer,
                            !.failures = @ \cup GenerateFailure(answer),
                            !.confidence_score = confidence_score,
                            !.events =
                               <<[event |-> "response",
                                  answer |-> answer,
                                  sources |-> tn.all_sources,
                                  conversation_id |-> tn.conversation_id,
                                  confidence_score |-> confidence_score]>>]]
    /\ UNCHANGED chatFrame

\* chat(): the search raised, or the conversation was deleted while the
\* search ran (conversations[conversation_id] raises KeyError); HTTP 500.
chat_error(t) ==
    /\ turn[t].pc = "search"
    /\ turn[t].endpoint = "chat"
    /\ \/ turn' = [turn EXCEPT
                     ![t].pc = "error",
                     ![t].failures = @ \cup { "document_store.search" },
                     ![t].events = <<[event |-> "http_500"]>>]
       \/ /\ turn[t].conversation_id \notin DOMAIN conversations
          /\ \E rows \in SearchRows(documents, document_chunks,
                                    turn[t].request.message,
                                    turn[t].request.max_internal_sources,
                                    turn[t].searched) :
               turn' = [turn EXCEPT ![t] =
                   [Searched(turn[t], rows) EXCEPT
                       !.pc = "error",
                       !.failures = @ \cup { "conversations" },
                       !.events = <<[event |-> "http_500"]>>]]
    /\ UNCHANGED <<chatFrame, conversations>>

\* stream_chat_generator: up to the metadata event.
stream_request(t, request) ==
    /\ turn[t].pc = "idle"
    /\ \E cid \in ConversationIds(request) :
         /\ conversations' = GetOrCreate(conversations, cid)
         /\ turn' = [turn EXCEPT ![t] =
              [NoTurn EXCEPT !.pc = "metadata", !.endpoint = "stream",
                             !.request = request, !.conversation_id = cid,
                             !.arrival = Arrival,
                             !.events = <<[event |-> "metadata",
                                           conversation_id |-> cid]>>]]
    /\ UNCHANGED chatFrame

stream_begin(t) ==
    /\ turn[t].pc = "idle"
    /\ \E request \in Requests : stream_request(t, request)

\* stream_chat_generator: from the metadata event to the await of the
\* internal search.
stream_gather(t) ==
    /\ turn[t].pc = "metadata"
    /\ turn[t].conversation_id \in DOMAIN conversations
    /\ LET request == turn[t].request
           cid == turn[t].conversation_id
           convs == AppendMessage(conversations, cid,
                                  ChatMessage("user", request.message))
           thread_doc_ids == SearchScope("stream", request.doc_ids)
       IN /\ conversations' = convs
          /\ \E tn \in Gathered("stream", request, cid, convs, thread_doc_ids,
                                turn[t].events) :
               turn' = [turn EXCEPT ![t] =
                          [tn EXCEPT !.arrival = turn[t].arrival]]
    /\ UNCHANGED chatFrame

\* stream_chat_generator: the search returned; filter, merge, sources event.
\* The token stream the model call is going to give is drawn here, from
\* `streams`.
stream_aggregate(t, streams) ==
    /\ turn[t].pc = "search"
    /\ turn[t].endpoint = "stream"
    /\ \E rows \in SearchRows(documents, document_chunks,
                              turn[t].request.message,
                              turn[t].request.max_internal_sources,
                              turn[t].searched) :
       \E tokens \in streams :
       \E tn \in { Searched(turn[t], rows) } :
            turn' = [turn EXCEPT ![t] =
              [tn EXCEPT !.pc = "tokens", !.tokens = tokens,
                         !.events = Append(@,
                             [event |-> "sources",
                              sources |-> tn.all_sources,
                              internal_count |-> Len(tn.internal_filtered),
                              web_count |-> Len(tn.web_filtered)])]]
    /\ UNCHANGED <<chatFrame, conversations>>

stream_sources(t) == stream_aggregate(t, TokenStreams)

\* stream_response(...) has been called in this turn.
Streaming(tn) ==
    \E i \in 1..Len(tn.calls) : tn.calls[i] = "stream_response"

\* The generator resumes after the sources event or a token event; after the
\* sources event it first calls stream_response(...).
Resumed(tn, convs) ==
    IF Streaming(tn) THEN tn ELSE Generating(tn, convs, "stream_response")

\* stream_response yields the apology when the model call failed.
StreamFailure(token) ==
    IF token = Apology THEN { "stream_response" } ELSE {}

\* async for token in stream_response(...): one token event.
stream_token(t) ==
    /\ turn[t].pc = "tokens"
    /\ turn[t].tokens # <<>>
    /\ Streaming(turn[t]) \/ turn[t].conversation_id \in DOMAIN conversations
    /\ \E tn \in { Resumed(turn[t], conversations) } :
       \E token \in { Head(tn.tokens) } :
          turn' = [turn EXCEPT ![t] =
            [tn EXCEPT !.tokens = Tail(@),
                       !.full_response = @ \o token,
                       !.failures = @ \cup StreamFailure(token),
                       !.events = Append(@, [event |-> "token",
                                             content |-> token])]]
    /\ UNCHANGED <<chatFrame, conversations>>

\* Mutant: the done event is sent without the assistant message being
\* appended.
stream_done_Unsaved(t) ==
    /\ turn[t].pc = "tokens"
    /\ turn[t].tokens = <<>>
    /\ turn[t].conversation_id \in DOMAIN conversations
    /\ \E tn \in { Resumed(turn[t], conversations) } :
       \E confidence_score \in
              { calculate_confidence_score(tn.internal_filtered,
                                           tn.web_filtered) } :
          turn' = [turn EXCEPT ![t] =
               [tn EXCEPT !.pc = "done",
                          !.confidence_score = confidence_score,
                          !.events = Append(@,
                              [event |-> "done",
                               answer |-> tn.full_response,
                               conversation_id |-> tn.conversation_id,
                               confidence_score |-> confidence_score])]]
    /\ UNCHANGED <<chatFrame, conversations>>

\* stream_chat_generator: the stream ended; assistant message, done event.
stream_done(t) ==
    /\ turn[t].pc = "tokens"
    /\ turn[t].tokens = <<>>
    /\ turn[t].conversation_id \in DOMAIN conversations
    /\ \E tn \in { Resumed(turn[t], conversations) } :
       \E confidence_score \in
              { calculate_confidence_score(tn.internal_filtered,
                                           tn.web_filtered) } :
          /\ conversations' =
               AppendMessage(conversations, tn.conversation_id,
                             ChatMessage("assistant", tn.full_response))
          /\ turn' = [turn EXCEPT ![t] =
               [tn EXCEPT !.pc = "done",
                          !.confidence_score = confidence_score,
                          !.events = Append(@,
                              [event |-> "done",
                               answer |-> tn.full_response,
                               conversation_id |-> tn.conversation_id,
                               confidence_score |-> confidence_score])]]
    /\ UNCHANGED chatFrame

\* Mutant: the error event does not end the stream.
stream_error_Continue(t) ==
    /\ turn[t].endpoint = "stream"
    /\ turn[t].pc = "search"
    /\ Len(turn[t].events) = 1
    /\ turn' = [turn EXCEPT
                  ![t].events = Append(@, [event |-> "error",
                                           conversation_id |->
                                               turn[t].conversation_id])]
    /\ UNCHANGED <<chatFrame, conversations>>

\* stream_chat_generator, except Exception: the search raised, or the
\* conversation was deleted before a statement that reads
\* conversations[conversation_id] (KeyError); error event.
stream_error(t) ==
    /\ turn[t].endpoint = "stream"
    /\ \E cause \in { "document_store.search", "conversations" } :
         /\ IF cause = "document_store.search"
            THEN turn[t].pc = "search"
            ELSE /\ turn[t].conversation_id \notin DOMAIN conversations
                 /\ \/ turn[t].pc = "metadata"
                    \/ turn[t].pc = "tokens" /\ ~Streaming(turn[t])
                    \/ turn[t].pc = "tokens" /\ turn[t].tokens = <<>>
         /\ turn' = [turn EXCEPT
                       ![t].pc = "error",
                       ![t].failures = @ \cup { cause },
                       ![t].events = Append(@, [event |-> "error",
                                                conversation_id |->
                                                    turn[t].conversation_id])]
    /\ UNCHANGED <<chatFrame, conversations>>

\* The client goes away while the generator is suspended at a yield: the
\* generator is closed there (GeneratorExit is no Exception).
stream_close(t) ==
    /\ turn[t].endpoint = "stream"
    /\ turn[t].pc \in { "metadata", "tokens" }
    /\ turn' = [turn EXCEPT ![t].pc = "closed"]
    /\ UNCHANGED <<chatFrame, conversations>>


-----------------------------------------------------------------------------
(* Store rows *)

\* documents row as created by add_document: status defaults to 'processing',
\* chunk_count to 0.
NewDocument == [status |-> "processing", chunk_count |-> 0]

Exists(d) == d \in DOMAIN documents

\* UPDATE documents SET status = s WHERE id = d  (no row: no effect, no error)
UpdateStatus(docs, d, s) ==
    IF d \in DOMAIN docs THEN [docs EXCEPT ![d].status = s] ELSE docs

\* Mutant: the count is accumulated over ingestions instead of set.
UpdateChunkCount_Add(docs, d, n) ==
    IF d \in DOMAIN docs
    THEN [docs EXCEPT ![d].chunk_count = docs[d].chunk_count + n]
    ELSE docs

\* UPDATE documents SET chunk_count = n WHERE id = d
UpdateChunkCount(docs, d, n) ==
    IF d \in DOMAIN docs THEN [docs EXCEPT ![d].chunk_count = n] ELSE docs

\* Mutant: a plain INSERT on a table without the unique key.
UpsertChunk_NoConflict(rows, d, idx, content, total) ==
    rows \cup { [doc_id |-> d, chunk_index |-> idx, content |-> content,
                 total_chunks |-> total] }

\* INSERT INTO document_chunks ... ON CONFLICT (doc_id, chunk_index) DO UPDATE
\* SET content, metadata.  chunk_index is metadata["chunk_index"].
UpsertChunk(rows, d, idx, content, total) ==
    { r \in rows : ~(r.doc_id = d /\ r.chunk_index = idx) }
        \cup { [doc_id |-> d, chunk_index |-> idx, content |-> content,
                total_chunks |-> total] }

\* An ingestion attempt.  kind: none | file | url | direct (a plain call of
\* add_document_chunks).  added: add_document_chunks returned True for a
\* non-empty list.  forced: the final check wrote 'failed'.
NewTask(kind, pc, chunks, attempt) ==
    [kind |-> kind, pc |-> pc, chunks |-> chunks, i |-> 1,
     attempt |-> attempt, added |-> FALSE, forced |-> FALSE,
     faulted |-> FALSE]

NoTask == NewTask("none", "idle", <<>>, 0)

-----------------------------------------------------------------------------
(* POST /documents/upload and POST /documents/url *)

\* A fresh uuid4 is drawn for every upload: an id is never used twice.
upload_document(d) ==
    /\ task[d].kind = "none"
    /\ documents' = (d :> NewDocument) @@ documents
    /\ task' = [task EXCEPT ![d] = NewTask("file", "start", <<>>, 1)]
    /\ UNCHANGED <<document_chunks, files, del, auxVars>>

add_url_document(d) ==
    /\ task[d].kind = "none"
    /\ documents' = (d :> NewDocument) @@ documents
    /\ task' = [task EXCEPT ![d] = NewTask("url", "process", <<>>, 1)]
    /\ UNCHANGED <<document_chunks, files, del, auxVars>>

-----------------------------------------------------------------------------
(* _process_document_background / _process_url_background *)

Goto(d, pc) == task' = [task EXCEPT ![d].pc = pc]

\* A store statement raised (asyncpg error); the attempt remembers it.
Fault(d, pc) == task' = [task EXCEPT ![d].pc = pc, ![d].faulted = TRUE]

\* Where control goes when a statement of the try body raises.
\* A direct store call has no handler: the exception leaves the call.
OnRaise(d) ==
    IF task[d].kind = "direct" THEN Fault(d, "raised") ELSE Fault(d, "handler")

\* documents.py 213: UPDATE documents SET status = 'processing'
SetProcessing(d) ==
    /\ task[d].kind = "file" /\ task[d].pc = "start"
    /\ \/ /\ documents' = UpdateStatus(documents, d, "processing")
          /\ Goto(d, "process")
       \/ /\ UNCHANGED documents
          /\ OnRaise(d)
    /\ UNCHANGED <<document_chunks, files, del, auxVars>>

\* Mutant: `if status == COMPLETED:` alone; add_document_chunks returns at
\* once for an empty list.
Branch_StatusOnly(d, ok, chunks) ==
    task' = [task EXCEPT ![d].chunks = chunks, ![d].i = 1,
                         ![d].pc = IF ~ok THEN "mark_failed"
                                   ELSE IF chunks # <<>> THEN "insert"
                                   ELSE IF task[d].kind = "file"
                                        THEN "finally" ELSE "done"]

\* After process_file / process_url returned (status, chunks, error):
\* `if status == COMPLETED and chunks` selects add_document_chunks, else the
\* UPDATE to failed.
Branch(d, ok, chunks) ==
    task' = [task EXCEPT ![d].chunks = chunks, ![d].i = 1,
                         ![d].pc = IF ok /\ chunks # <<>> THEN "insert"
                                   ELSE "mark_failed"]

\* process_file: extraction, cleaning, chunking, then _save_file; any
\* exception is turned into (FAILED, [], str(e)).  The file is saved only
\* when every earlier stage succeeded, and a failing save gives FAILED.
process_file(d) ==
    /\ task[d].kind = "file" /\ task[d].pc = "process"
    /\ \/ /\ Branch(d, FALSE, <<>>)          \* extraction/chunking failed
          /\ UNCHANGED files
       \/ /\ Branch(d, FALSE, <<>>)          \* _save_file raised after mkdir
          /\ files' = files \cup {d}
       \/ \E cs \in ChunkLists :             \* COMPLETED, chunks (maybe none)
            /\ Branch(d, TRUE, cs)
            /\ files' = files \cup {d}
    /\ UNCHANGED <<documents, document_chunks, del, auxVars>>

\* process_url: invalid URL, fetch error, empty page -> FAILED; else chunks.
process_url(d) ==
    /\ task[d].kind = "url" /\ task[d].pc = "process"
    /\ \/ Branch(d, FALSE, <<>>)
       \/ \E cs \in ChunkLists : Branch(d, TRUE, cs)
    /\ UNCHANGED <<documents, document_chunks, files, del, auxVars>>

\* Mutant: document_chunks.doc_id without its REFERENCES documents(id).
InsertChunk_NoForeignKey(d) ==
    /\ task[d].pc = "insert"
    /\ LET i == task[d].i
           n == Len(task[d].chunks)
       IN /\ document_chunks' =
                 UpsertChunk(document_chunks, d, i - 1, task[d].chunks[i], n)
          /\ task' = [task EXCEPT ![d].i = i + 1,
                                  ![d].pc = IF i = n THEN "count" ELSE "insert"]
    /\ UNCHANGED <<documents, files, del, auxVars>>

\* add_document_chunks, one INSERT per chunk (document_store.py 167-181).
\* The foreign key on doc_id makes the INSERT raise when the document row
\* is gone.
InsertChunk(d) ==
    /\ task[d].pc = "insert"
    /\ LET i == task[d].i
           n == Len(task[d].chunks)
       IN \/ /\ Exists(d)
             /\ document_chunks' =
                    UpsertChunk(document_chunks, d, i - 1, task[d].chunks[i], n)
             /\ task' = [task EXCEPT ![d].i = i + 1,
                                     ![d].pc = IF i = n THEN "count" ELSE "insert"]
          \/ /\ UNCHANGED document_chunks
             /\ OnRaise(d)
    /\ UNCHANGED <<documents, files, del, auxVars>>

\* document_store.py 183-187: UPDATE documents SET chunk_count = len(chunks)
UpdateCount(d) ==
    /\ task[d].pc = "count"
    /\ \/ /\ documents' = UpdateChunkCount(documents, d, Len(task[d].chunks))
          /\ Goto(d, "complete")
       \/ /\ UNCHANGED documents
          /\ OnRaise(d)
    /\ UNCHANGED <<document_chunks, files, del, auxVars>>

\* Where control goes when the try body ends without an exception.
BodyEnd(d) == IF task[d].kind = "file" THEN "finally" ELSE "done"

AfterBody(d) == Goto(d, BodyEnd(d))

\* Mutant: status completed is written before the chunk_count update.
SetCompleted_BeforeCount(d) ==
    /\ task[d].pc \in { "count", "complete" }
    /\ \/ /\ documents' = UpdateStatus(documents, d, "completed")
          /\ task' = [task EXCEPT ![d].added = TRUE, ![d].pc = BodyEnd(d)]
       \/ /\ UNCHANGED documents
          /\ OnRaise(d)
    /\ UNCHANGED <<document_chunks, files, del, auxVars>>

\* document_store.py 188-191: UPDATE documents SET status = 'completed'
SetCompleted(d) ==
    /\ task[d].pc = "complete"
    /\ \/ /\ documents' = UpdateStatus(documents, d, "completed")
          /\ task' = [task EXCEPT ![d].added = TRUE, ![d].pc = BodyEnd(d)]
       \/ /\ UNCHANGED documents
          /\ OnRaise(d)
    /\ UNCHANGED <<document_chunks, files, del, auxVars>>

\* The else branch.  File (documents.py 230-238): UPDATE ... SET status = $1
\* with ("failed", doc_id).  URL (documents.py 280-288): the statement has one
\* placeholder and is given two arguments, so asyncpg raises before the
\* statement runs.
MarkFailed(d) ==
    /\ task[d].pc = "mark_failed"
    /\ \/ /\ task[d].kind = "file"
          /\ documents' = UpdateStatus(documents, d, "failed")
          /\ AfterBody(d)
       \/ /\ task[d].kind = "file"
          /\ UNCHANGED documents
          /\ OnRaise(d)
       \/ /\ task[d].kind = "url"
          /\ UNCHANGED documents
          /\ Goto(d, "handler")
    /\ UNCHANGED <<document_chunks, files, del, auxVars>>

\* Where control goes when the except block is left, normally or by an
\* exception of its own: the file task still runs its finally block, the URL
\* task has none and ends.
HandlerEnd(d) == IF task[d].kind = "file" THEN "finally" ELSE "done"

AfterHandler(d) == Goto(d, HandlerEnd(d))

\* except Exception: UPDATE documents SET status = 'failed'
Handler(d) ==
    /\ task[d].pc = "handler"
    /\ \/ /\ documents' = UpdateStatus(documents, d, "failed")
          /\ AfterHandler(d)
       \/ /\ UNCHANGED documents             \* the UPDATE raises
          /\ Fault(d, HandlerEnd(d))
    /\ UNCHANGED <<document_chunks, files, del, auxVars>>

\* Mutant: no final check, the task just ends.
FinalCheckRead_NoCheck(d) ==
    /\ task[d].pc = "finally"
    /\ Goto(d, "done")
    /\ UNCHANGED <<documents, document_chunks, files, del, auxVars>>

\* Mutant: the final check forces 'failed' whatever the status is.
FinalCheckRead_Unconditional(d) ==
    /\ task[d].pc = "finally"
    /\ \/ Goto(d, "force_failed")
       \/ Goto(d, "aborted")
    /\ UNCHANGED <<documents, document_chunks, files, del, auxVars>>

\* finally (documents.py 254-265): read the status, force 'processing' to
\* 'failed'.  A statement of the final check that raises ends the task with
\* the check unfinished.
FinalCheckRead(d) ==
    /\ task[d].pc = "finally"
    /\ \/ IF Exists(d) /\ documents[d].status = "processing"
          THEN Goto(d, "force_failed")
          ELSE Goto(d, "done")
       \/ Fault(d, "aborted")
    /\ UNCHANGED <<documents, document_chunks, files, del, auxVars>>

FinalCheckWrite(d) ==
    /\ task[d].pc = "force_failed"
    /\ \/ /\ documents' = UpdateStatus(documents, d, "failed")
          /\ task' = [task EXCEPT ![d].forced = TRUE, ![d].pc = "done"]
       \/ /\ UNCHANGED documents
          /\ Fault(d, "aborted")
    /\ UNCHANGED <<document_chunks, files, del, auxVars>>

\* SimpleDocumentStore.add_document_chunks called again for an id whose
\* earlier attempt is over (the ON CONFLICT clauses exist for this case).
\* `if not chunks: return True` ends the call at once.
add_document_chunks(d, cs) ==
    /\ task[d].kind # "none"
    /\ task[d].pc \in {"done", "aborted", "raised"}
    /\ task[d].attempt < MaxAttempts
    /\ task' = [task EXCEPT ![d] =
                    NewTask("direct", IF cs = <<>> THEN "done" ELSE "insert",
                            cs, task[d].attempt + 1)]
    /\ UNCHANGED <<documents, document_chunks, files, del, auxVars>>

-----------------------------------------------------------------------------
(* DELETE /documents/{doc_id} *)

\* list_documents, 404 when the id is unknown.
DeleteLookup(d) ==
    /\ del[d] = "idle"
    /\ Exists(d)
    /\ del' = [del EXCEPT ![d] = "chunks"]
    /\ UNCHANGED <<documents, document_chunks, files, task, auxVars>>

\* DELETE FROM document_chunks WHERE doc_id = d
DeleteChunks(d) ==
    /\ del[d] = "chunks"
    /\ \/ /\ document_chunks' = { r \in document_chunks : r.doc_id # d }
          /\ del' = [del EXCEPT ![d] = "doc"]
       \/ /\ UNCHANGED document_chunks
          /\ del' = [del EXCEPT ![d] = "idle"]       \* statement raised: 500
    /\ UNCHANGED <<documents, files, task, auxVars>>

\* DELETE FROM documents WHERE id = d  (ON DELETE CASCADE removes its chunks)
DeleteDoc(d) ==
    /\ del[d] = "doc"
    /\ \/ /\ documents' = [x \in DOMAIN documents \ {d} |-> documents[x]]
          /\ document_chunks' = { r \in document_chunks : r.doc_id # d }
          /\ del' = [del EXCEPT ![d] = "files"]
       \/ /\ UNCHANGED <<documents, document_chunks>>
          /\ del' = [del EXCEPT ![d] = "idle"]
    /\ UNCHANGED <<files, task, auxVars>>

\* shutil.rmtree(documents/<doc_id>) when the directory exists
DeleteFiles(d) ==
    /\ del[d] = "files"
    /\ files' = files \ {d}
    /\ del' = [del EXCEPT ![d] = "idle"]
    /\ UNCHANGED <<documents, document_chunks, task, auxVars>>

-----------------------------------------------------------------------------
Init ==
    /\ documents = << >>
    /\ document_chunks = {}
    /\ files = {}
    /\ task = [d \in IngestIds |-> NoTask]
    /\ del = [d \in IngestIds |-> "idle"]
    /\ search = NoSearch
    /\ conversations = [c \in {} |-> <<>>]
    /\ turn = [t \in TurnIds |-> NoTurn]
    /\ reply = NoReply
    /\ chunking = NoChunking
    /\ planner = NoPlanner
    /\ pool = NoPool
    /\ snippets = NoSnippets
    /\ confidence = NoConfidence

Next ==
    \E d \in IngestIds :
        \/ upload_document(d)
        \/ add_url_document(d)
        \/ SetProcessing(d)
        \/ process_file(d)
        \/ process_url(d)
        \/ InsertChunk(d)
        \/ UpdateCount(d)
        \/ SetCompleted(d)
        \/ MarkFailed(d)
        \/ Handler(d)
        \/ FinalCheckRead(d)
        \/ FinalCheckWrite(d)
        \/ DeleteLookup(d)
        \/ DeleteChunks(d)
        \/ DeleteDoc(d)
        \/ DeleteFiles(d)

Spec == Init /\ [][Next]_vars

-----------------------------------------------------------------------------
(* Searches against a populated store *)

\* The store after the documents in `present` were ingested with the chunk
\* lists f[d]; a document whose ingestion gave no chunk is failed.
IngestedDocuments(present, f) ==
    [d \in present |->
        [status |-> IF f[d] = <<>> THEN "failed" ELSE "completed",
         chunk_count |-> Len(f[d])]]

\* Their chunk rows, as add_document_chunks leaves them.
IngestedChunks(present, f) ==
    UNION { { [doc_id |-> d, chunk_index |-> i - 1, content |-> f[d][i],
               total_chunks |-> Len(f[d])] : i \in 1..Len(f[d]) } :
            d \in present }

InitSearch ==
    /\ \E present \in SUBSET DocIds : \E f \in [present -> SearchChunkLists] :
          /\ documents = IngestedDocuments(present, f)
          /\ document_chunks = IngestedChunks(present, f)
    /\ files = {}
    /\ task = [d \in IngestIds |-> NoTask]
    /\ del = [d \in IngestIds |-> "idle"]
    /\ search = NoSearch
    /\ conversations = [c \in {} |-> <<>>]
    /\ turn = [t \in TurnIds |-> NoTurn]
    /\ reply = NoReply
    /\ chunking = NoChunking
    /\ planner = NoPlanner
    /\ pool = NoPool
    /\ snippets = NoSnippets
    /\ confidence = NoConfidence

\* document_store.search(query, n_results, doc_ids).  search() writes
\* nothing, so one call per behaviour shows every result it can give.
Search ==
    /\ ~search.called
    /\ \E query \in Queries, n_results \in 1..MaxLimit, scope \in Scopes :
         \E rows \in SearchRows(documents, document_chunks, query,
                                n_results, scope) :
            search' = [called |-> TRUE, query |-> query,
                       n_results |-> n_results, scope |-> scope,
                       rows |-> rows, sources |-> rows_to_sources(rows)]
    /\ UNCHANGED <<ingestVars, conversations, turn, confidence, reply,
                   chunking, planner, pool, snippets>>

NextSearch == Search

SpecSearch == InitSearch /\ [][NextSearch]_vars

-----------------------------------------------------------------------------
(* Searches beside ingestions *)

\* One search at any moment of the ingestions and deletes.
NextIngestSearch ==
    \/ Next
    \/ Search

SpecIngestSearch == Init /\ [][NextIngestSearch]_vars

-----------------------------------------------------------------------------

(* Chat turns against a populated store *)

\* The stores chat turns run against: "A cat", "dog" in the first document,
\* "dog" in the others.
ChatChunks(d) ==
    IF d = 1 THEN << <<"A"," ","c","a","t">>, <<"d","o","g">> >>
    ELSE << <<"d","o","g">> >>

InitChat ==
    /\ \E present \in SUBSET DocIds :
          LET f == [d \in present |-> ChatChunks(d)]
          IN /\ documents = IngestedDocuments(present, f)
             /\ document_chunks = IngestedChunks(present, f)
    /\ files = {}
    /\ task = [d \in IngestIds |-> NoTask]
    /\ del = [d \in IngestIds |-> "idle"]
    /\ search = NoSearch
    /\ conversations = [c \in {} |-> <<>>]
    /\ turn = [t \in TurnIds |-> NoTurn]
    /\ reply = NoReply
    /\ chunking = NoChunking
    /\ planner = NoPlanner
    /\ pool = NoPool
    /\ snippets = NoSnippets
    /\ confidence = NoConfidence

NextChat ==
    \E t \in SoloTurns :
        \/ chat_begin(t)
        \/ chat_finish(t)
        \/ chat_error(t)
        \/ stream_begin(t)
        \/ stream_gather(t)
        \/ stream_sources(t)
        \/ stream_token(t)
        \/ stream_done(t)
        \/ stream_error(t)
        \/ stream_close(t)

SpecChat == InitChat /\ [][NextChat]_vars

-----------------------------------------------------------------------------
(* Concurrent turns on conversation threads *)

\* Most GET and DELETE /conversations/{id} requests served in a run.
MaxCalls == 1

ThreadConvIds == { "c1", "c2" }

\* The message of the request served in slot t; the slots differ, so that a
\* message in a history tells which request appended it.
ThreadMessage(t) ==
    IF t = 1 THEN <<"s","e","e"," ","h","t","t","p",":","/","/","x">>
    ELSE <<"h","t","t","p",":","/","/","x">>

\* Slot 1 serves thread "c1"; slot 2 serves the same thread or another.
ThreadRequests(t) ==
    [message : { ThreadMessage(t) },
     conversation_id : IF t = 1 THEN { "c1" } ELSE ThreadConvIds,
     max_internal_sources : { 1 },
     max_web_sources : { 1 },
     force_web_search : { FALSE },
     doc_ids : { Scope({ 1 }) }]

\* A thread left by an earlier, completed turn.
PriorThread ==
    << ChatMessage("user", <<"d","o","g">>),
       ChatMessage("assistant", <<"o","k">>) >>

InitThreads ==
    /\ documents = IngestedDocuments({ 1 }, [d \in { 1 } |-> ChatChunks(d)])
    /\ document_chunks = IngestedChunks({ 1 }, [d \in { 1 } |-> ChatChunks(d)])
    /\ files = {}
    /\ task = [d \in IngestIds |-> NoTask]
    /\ del = [d \in IngestIds |-> "idle"]
    /\ search = NoSearch
    /\ conversations = [c \in { "c1" } |-> PriorThread]
    /\ turn = [t \in TurnIds |-> NoTurn]
    /\ reply = NoReply
    /\ chunking = NoChunking
    /\ planner = NoPlanner
    /\ pool = NoPool
    /\ snippets = NoSnippets
    /\ confidence = NoConfidence

thread_chat_begin(t) ==
    /\ turn[t].pc = "idle"
    /\ \E request \in ThreadRequests(t) : chat_request(t, request)

thread_stream_begin(t) ==
    /\ turn[t].pc = "idle"
    /\ \E request \in ThreadRequests(t) : stream_request(t, request)

\* Token streams of these turns: one token, or the model call fails.
ThreadTokenStreams == { << <<"o">> >>, << Apology >> }

thread_stream_sources(t) == stream_aggregate(t, ThreadTokenStreams)

\* Mutant: the conversation map creates an entry when an unknown id is read.
get_conversation_Create(conversation_id) ==
    /\ reply.n < MaxCalls
    /\ conversations' = GetOrCreate(conversations, conversation_id)
    /\ reply' = [n |-> reply.n + 1, op |-> "get",
                 conversation_id |-> conversation_id, status |-> 200,
                 messages |-> conversations'[conversation_id]]
    /\ UNCHANGED <<ingestVars, search, turn, confidence, chunking, planner, pool, snippets>>

\* GET /conversations/{conversation_id}
get_conversation(conversation_id) ==
    /\ reply.n < MaxCalls
    /\ reply' =
         IF conversation_id \notin DOMAIN conversations
         THEN [n |-> reply.n + 1, op |-> "get",
               conversation_id |-> conversation_id, status |-> 404,
               messages |-> <<>>]
         ELSE [n |-> reply.n + 1, op |-> "get",
               conversation_id |-> conversation_id, status |-> 200,
               messages |-> conversations[conversation_id]]
    /\ UNCHANGED <<ingestVars, search, conversations, turn, confidence, chunking, planner, pool, snippets>>

\* DELETE /conversations/{conversation_id}
delete_conversation(conversation_id) ==
    /\ reply.n < MaxCalls
    /\ IF conversation_id \notin DOMAIN conversations
       THEN /\ reply' = [n |-> reply.n + 1, op |-> "delete",
                         conversation_id |-> conversation_id,
                         status |-> 404, messages |-> <<>>]
            /\ UNCHANGED conversations
       ELSE /\ conversations' =
                 [c \in DOMAIN conversations \ { conversation_id } |->
                     conversations[c]]
            /\ reply' = [n |-> reply.n + 1, op |-> "delete",
                         conversation_id |-> conversation_id,
                         status |-> 200, messages |-> <<>>]
    /\ UNCHANGED <<ingestVars, search, turn, confidence, chunking, planner, pool, snippets>>

\* The clients of these turns read their streams to the end.
NextThreads ==
    \/ \E t \in TurnIds :
        \/ thread_chat_begin(t)
        \/ chat_finish(t)
        \/ chat_error(t)
        \/ thread_stream_begin(t)
        \/ stream_gather(t)
        \/ thread_stream_sources(t)
        \/ stream_token(t)
        \/ stream_done(t)
        \/ stream_error(t)
    \/ \E conversation_id \in ThreadConvIds :
        \/ get_conversation(conversation_id)
        \/ delete_conversation(conversation_id)

SpecThreads == InitThreads /\ [][NextThreads]_vars

-----------------------------------------------------------------------------

(* Web-search planning in a turn *)

\* Requests of these turns: "cat", "latest cat", " " and "see http://x",
\* with and without force_web_search, with and without documents.
PlanRequests ==
    [message : { <<"c","a","t">>, <<"l","a","t","e","s","t"," ","c","a","t">>, <<" ">>, <<"s","e","e"," ","h","t","t","p",":","/","/","x">> },
     conversation_id : { "c1" },
     max_internal_sources : { 1 },
     max_web_sources : { 1 },
     force_web_search : BOOLEAN,
     doc_ids : { NoScope, Scope({ 1 }) }]

plan_chat_begin(t) ==
    /\ turn[t].pc = "idle"
    /\ \E request \in PlanRequests : chat_request(t, request)

plan_stream_begin(t) ==
    /\ turn[t].pc = "idle"
    /\ \E request \in PlanRequests : stream_request(t, request)

NextPlanning ==
    \E t \in SoloTurns :
        \/ plan_chat_begin(t)
        \/ chat_finish(t)
        \/ chat_error(t)
        \/ plan_stream_begin(t)
        \/ stream_gather(t)
        \/ thread_stream_sources(t)
        \/ stream_token(t)
        \/ stream_done(t)
        \/ stream_error(t)
        \/ stream_close(t)

SpecPlanning == InitChat /\ [][NextPlanning]_vars

-----------------------------------------------------------------------------

(* LLMService.plan_web_search on a given reply of the language model *)

\* Most segments of a reply of the language model.
MaxSegments == 2

\* Queries handed to the planner: "cat", "latest cat", " latest", " ".
PlannerQueries == { <<"c","a","t">>, <<"l","a","t","e","s","t"," ","c","a","t">>, <<" ","l","a","t","e","s","t">>, <<" ">> }

\* JSON objects a reply can carry, by the keys present: {} and objects with
\* use_web_search and search_query ("", " ", "cat news"); the field of an
\* absent key holds its default.
Decisions ==
    { d \in [keys : SUBSET { "use_web_search", "search_query" },
             use_web_search : BOOLEAN,
             search_query : { <<>>, <<" ">>,
                              <<"c","a","t"," ","n","e","w","s">> }] :
        /\ "use_web_search" \notin d.keys => ~d.use_web_search
        /\ "search_query" \notin d.keys => d.search_query = <<>> }

\* The pieces a reply is made of: prose without braces ("Sure:"), a JSON
\* value that is no object ("true"), a JSON object, and braces that are not
\* JSON ("{oops}").
Segments ==
    { [kind |-> "prose"], [kind |-> "value"], [kind |-> "braces"] }
      \cup { [kind |-> "object", dict |-> d] : d \in Decisions }

\* response.choices[0].message.content: the pieces, separated by spaces;
\* <<>> is None or "".
Contents == UNION { [1..n -> Segments] : n \in 0..MaxSegments }

\* The model call raises, or replies.
PlannerReplies ==
    { [raised |-> TRUE, content |-> <<>>] }
      \cup { [raised |-> FALSE, content |-> c] : c \in Contents }

\* No dict: the None of _extract_json_dict.
NoDict == [kind |-> "none"]

\* json.loads(text), and `parsed if isinstance(parsed, dict) else None` when
\* it does not raise: a text parses when it is one JSON value.
json_loads(text) ==
    IF Len(text) = 1 /\ text[1].kind \in { "value", "object" }
    THEN [ok |-> TRUE,
          dict |-> IF text[1].kind = "object" THEN text[1] ELSE NoDict]
    ELSE [ok |-> FALSE, dict |-> NoDict]

\* re.search(r"\{.*\}", text, re.DOTALL).group(0): from the first "{" to the
\* last "}" of the text; <<>> stands for no match.
BraceMatch(text) ==
    LET braced == { i \in 1..Len(text) :
                      text[i].kind \in { "object", "braces" } }
    IN IF braced = {} THEN <<>>
       ELSE SubSeq(text,
                   CHOOSE i \in braced : \A j \in braced : i <= j,
                   CHOOSE i \in braced : \A j \in braced : i >= j)

\* LLMService._extract_json_dict
extract_json_dict(text) ==
    IF text = <<>> THEN NoDict
    ELSE IF json_loads(text).ok THEN json_loads(text).dict
    ELSE IF BraceMatch(text) = <<>> THEN NoDict
    ELSE json_loads(BraceMatch(text)).dict

\* bool(decision.get("use_web_search")) and
\* str(decision.get("search_query") or query).strip(), query when empty.
DecisionPlan(dict, query) ==
    LET given == IF "search_query" \in dict.keys THEN dict.search_query
                 ELSE <<>>
        search_query == Strip(IF given = <<>> THEN query ELSE given)
    IN [use |-> "use_web_search" \in dict.keys /\ dict.use_web_search,
        query |-> IF search_query = <<>> THEN query ELSE search_query]

\* LLMService.plan_web_search for one outcome of the model call.
plan_web_search_reply(query, model_reply) ==
    IF model_reply.raised THEN heuristic_web_search_plan(query)
    ELSE LET decision == extract_json_dict(model_reply.content)
         IN IF decision = NoDict \/ decision.dict.keys = {}
            THEN heuristic_web_search_plan(query)
            ELSE DecisionPlan(decision.dict, query)

InitPlanner ==
    /\ documents = << >>
    /\ document_chunks = {}
    /\ files = {}
    /\ task = [d \in IngestIds |-> NoTask]
    /\ del = [d \in IngestIds |-> "idle"]
    /\ search = NoSearch
    /\ conversations = [c \in {} |-> <<>>]
    /\ turn = [t \in TurnIds |-> NoTurn]
    /\ reply = NoReply
    /\ confidence = NoConfidence
    /\ chunking = NoChunking
    /\ pool = NoPool
    /\ snippets = NoSnippets
    /\ \E query \in PlannerQueries, model_reply \in PlannerReplies :
         planner = [NoPlanner EXCEPT !.query = query,
                                     !.model_reply = model_reply]

\* planner_use_web, planner_query = llm_service.plan_web_search(query, ...).
\* The body of plan_web_search after the heuristic plan is one try block
\* whose handler returns; nothing is raised to the caller.
Plan ==
    /\ ~planner.called
    /\ planner' =
         [planner EXCEPT
            !.called = TRUE,
            !.raised = FALSE,
            !.result = plan_web_search_reply(planner.query,
                                             planner.model_reply)]
    /\ UNCHANGED <<ingestVars, search, conversations, turn, confidence, reply,
                   chunking, pool, snippets>>

NextPlanner == Plan

SpecPlanner == InitPlanner /\ [][NextPlanner]_vars

-----------------------------------------------------------------------------

(* The snippet of a Source, for contents around the snippet length *)

\* Longest chunk or page content turned into a snippet.
MaxContentLen == 502

\* Contents of every length up to MaxContentLen: letters, or blanks.
SnippetContents ==
    { [i \in 1..n |-> ch] : n \in 0..MaxContentLen, ch \in { "a", " " } }

\* Where a Source of a chat turn comes from: a row of the lexical statement,
\* a row of the fallback statement, a result of the web search, an
\* extracted URL.
SnippetKinds == { "lexical", "fallback", "search", "extract" }

\* The Sources made of one row or one provider result with this content.
SourcesOf(kind, content) ==
    LET row == [doc_id |-> 1, chunk_index |-> 0, content |-> content]
        url == <<"h","t","t","p",":","/","/","w">>
    IN CASE kind = "lexical" ->
              rows_to_sources(<<ScoredRow(row, ScoreExact)>>)
         [] kind = "fallback" ->
              rows_to_sources(<<ScoredRow(row, ScoreFallback)>>)
         [] kind = "search" -> <<WebSource(url, content, DefaultWebScore)>>
         [] kind = "extract" -> <<WebSource(url, content, ExtractScore)>>

InitSnippets ==
    /\ documents = << >>
    /\ document_chunks = {}
    /\ files = {}
    /\ task = [d \in IngestIds |-> NoTask]
    /\ del = [d \in IngestIds |-> "idle"]
    /\ search = NoSearch
    /\ conversations = [c \in {} |-> <<>>]
    /\ turn = [t \in TurnIds |-> NoTurn]
    /\ reply = NoReply
    /\ confidence = NoConfidence
    /\ chunking = NoChunking
    /\ planner = NoPlanner
    /\ pool = NoPool
    /\ \E kind \in SnippetKinds, content \in SnippetContents :
         snippets = [NoSnippets EXCEPT !.kind = kind, !.content = content]

\* _rows_to_sources, TavilySearchService.search and .extract building the
\* Source of one row or result.
MakeSources ==
    /\ ~snippets.called
    /\ snippets' =
         [snippets EXCEPT
            !.called = TRUE,
            !.sources = SourcesOf(snippets.kind, snippets.content)]
    /\ UNCHANGED <<ingestVars, search, conversations, turn, confidence, reply,
                   chunking, planner, pool>>

NextSnippets == MakeSources

SpecSnippets == InitSnippets /\ [][NextSnippets]_vars

-----------------------------------------------------------------------------

(* database.py: the connection pool and the store operations *)

\* Calls of one store operation slot.
MaxRuns == 1

\* Calls of reset_pool and of close_pool, together.
MaxResets == 1

\* Pools asyncpg.create_pool can hand out in a run.
MaxPools == MaxOps * MaxRuns

SetOp(o, pc, p, conn) ==
    pool' = [pool EXCEPT !.op[o].pc = pc, !.op[o].pool = p,
                         !.op[o].conn = conn]

\* execute_sql, fetch_sql, fetchone_sql: pool = await get_pool() up to the
\* first suspension.  get_pool returns _pool at once when it is set;
\* otherwise it is suspended in asyncpg.create_pool.
op_begin(o) ==
    /\ pool.op[o].pc \in { "idle", "returned", "raised" }
    /\ pool.op[o].runs < MaxRuns
    /\ pool' = [pool EXCEPT
                  !.op[o] = [pc |-> IF pool.current = 0 THEN "create_pool"
                                    ELSE "acquire",
                             pool |-> pool.current,
                             conn |-> FALSE,
                             runs |-> @.runs + 1]]
    /\ UNCHANGED <<ingestVars, search, conversations, turn, confidence, reply,
                   chunking, planner, snippets>>

\* get_pool resumed: _pool = await asyncpg.create_pool(...), return _pool;
\* or create_pool raised and the operation raises.
create_pool(o) ==
    /\ pool.op[o].pc = "create_pool"
    /\ \/ /\ pool.total < MaxPools
          /\ pool' = [pool EXCEPT !.current = pool.total + 1,
                                  !.total = @ + 1,
                                  !.created = @ + 1,
                                  !.op[o].pc = "acquire",
                                  !.op[o].pool = pool.total + 1]
       \/ SetOp(o, "raised", 0, FALSE)
    /\ UNCHANGED <<ingestVars, search, conversations, turn, confidence, reply,
                   chunking, planner, snippets>>

\* async with pool.acquire() as conn: a connection of the pool the
\* operation got, or acquire raises.
acquire(o) ==
    /\ pool.op[o].pc = "acquire"
    /\ \/ SetOp(o, "statement", pool.op[o].pool, TRUE)
       \/ SetOp(o, "raised", pool.op[o].pool, FALSE)
    /\ UNCHANGED <<ingestVars, search, conversations, turn, confidence, reply,
                   chunking, planner, snippets>>

\* return await conn.execute(...) (fetch, fetchrow): the statement ends or
\* raises; either way the async with block is left through __aexit__.
statement(o) ==
    /\ pool.op[o].pc = "statement"
    /\ \/ SetOp(o, "release", pool.op[o].pool, TRUE)
       \/ SetOp(o, "release_raise", pool.op[o].pool, TRUE)
    /\ UNCHANGED <<ingestVars, search, conversations, turn, confidence, reply,
                   chunking, planner, snippets>>

\* __aexit__ of pool.acquire(): the connection goes back to the pool, then
\* the operation returns, or raises what the statement raised.
release(o) ==
    /\ pool.op[o].pc \in { "release", "release_raise" }
    /\ SetOp(o, IF pool.op[o].pc = "release" THEN "returned" ELSE "raised",
             pool.op[o].pool, FALSE)
    /\ UNCHANGED <<ingestVars, search, conversations, turn, confidence, reply,
                   chunking, planner, snippets>>

\* reset_pool: _pool = None.
reset_pool ==
    /\ pool.resets < MaxResets
    /\ pool' = [pool EXCEPT !.current = 0, !.created = 0, !.resets = @ + 1]
    /\ UNCHANGED <<ingestVars, search, conversations, turn, confidence, reply,
                   chunking, planner, snippets>>

\* close_pool up to await _pool.close(); nothing to do when _pool is None.
close_pool_begin ==
    /\ pool.closing = 0
    /\ pool.resets < MaxResets
    /\ pool.current # 0
    /\ pool' = [pool EXCEPT !.closing = pool.current, !.resets = @ + 1]
    /\ UNCHANGED <<ingestVars, search, conversations, turn, confidence, reply,
                   chunking, planner, snippets>>

\* close_pool resumed: _pool = None, whatever _pool is by now.
close_pool_end ==
    /\ pool.closing # 0
    /\ pool' = [pool EXCEPT !.current = 0, !.created = 0, !.closing = 0]
    /\ UNCHANGED <<ingestVars, search, conversations, turn, confidence, reply,
                   chunking, planner, snippets>>

InitPool ==
    /\ documents = << >>
    /\ document_chunks = {}
    /\ files = {}
    /\ task = [d \in IngestIds |-> NoTask]
    /\ del = [d \in IngestIds |-> "idle"]
    /\ search = NoSearch
    /\ conversations = [c \in {} |-> <<>>]
    /\ turn = [t \in TurnIds |-> NoTurn]
    /\ reply = NoReply
    /\ confidence = NoConfidence
    /\ chunking = NoChunking
    /\ planner = NoPlanner
    /\ snippets = NoSnippets
    /\ pool = NoPool

NextPool ==
    \/ \E o \in Ops :
        \/ op_begin(o)
        \/ create_pool(o)
        \/ acquire(o)
        \/ statement(o)
        \/ release(o)
    \/ reset_pool
    \/ close_pool_begin
    \/ close_pool_end

SpecPool == InitPool /\ [][NextPool]_vars

-----------------------------------------------------------------------------

(* calculate_confidence_score on given sources *)

\* Most sources of one kind in a call.
MaxSources == 2

\* Source scores: 0.0, 0.45, 0.5, 0.9, 1.0.
ConfidenceScores == { 0, 45, 50, 90, 100 }

InternalSources(n) ==
    [1..n -> { [source_type |-> "internal_document", document_id |-> 1,
                url |-> <<>>, snippet |-> <<>>, relevance_score |-> sc] :
               sc \in ConfidenceScores }]

WebSources(n) ==
    [1..n -> { WebSource(<<>>, <<>>, sc) : sc \in ConfidenceScores }]

InitConfidence ==
    /\ documents = << >>
    /\ document_chunks = {}
    /\ files = {}
    /\ task = [d \in IngestIds |-> NoTask]
    /\ del = [d \in IngestIds |-> "idle"]
    /\ search = NoSearch
    /\ conversations = [c \in {} |-> <<>>]
    /\ turn = [t \in TurnIds |-> NoTurn]
    /\ reply = NoReply
    /\ chunking = NoChunking
    /\ planner = NoPlanner
    /\ pool = NoPool
    /\ snippets = NoSnippets
    /\ \E n, m \in 0..MaxSources :
         \E internal_sources \in InternalSources(n), web_sources \in WebSources(m) :
            confidence = [called |-> FALSE,
                          internal_sources |-> internal_sources,
                          web_sources |-> web_sources,
                          result |-> [num |-> 0, den |-> 1]]

\* llm_service.calculate_confidence_score(internal_sources, web_sources)
Confidence ==
    /\ ~confidence.called
    /\ confidence' =
         [confidence EXCEPT
            !.called = TRUE,
            !.result = calculate_confidence_score(confidence.internal_sources,
                                                  confidence.web_sources)]
    /\ UNCHANGED <<ingestVars, search, conversations, turn, reply,
                   chunking, planner, pool, snippets>>

NextConfidence == Confidence

SpecConfidence == InitConfidence /\ [][NextConfidence]_vars

-----------------------------------------------------------------------------

\* The store used as a library: the application's actions plus repeated
\* add_document_chunks calls for an id.
NextStore ==
    \/ Next
    \/ \E d \in IngestIds : \E cs \in ChunkLists : add_document_chunks(d, cs)

SpecStore == Init /\ [][NextStore]_vars

-----------------------------------------------------------------------------
(* DocumentProcessor._clean_text and _chunk_text *)

\* Longest extracted text.
MaxTextLen == 4

\* settings.chunk_size and settings.chunk_overlap, scaled to these texts.
ChunkSize == 3

ChunkOverlap == 1

\* A control character of [\x00-\x08\x0b-\x0c\x0e-\x1f] that is no white
\* space.
ControlChar == "x01"

TextChars == { "a", ".", " ", "\n", ControlChar }

RawTexts == UNION { [1..n -> TextChars] : n \in 0..MaxTextLen }

\* re.sub(r"\s+", " ", text)
RECURSIVE CollapseSpace(_)
CollapseSpace(s) ==
    IF s = <<>> THEN <<>>
    ELSE IF IsSpace(Head(s)) THEN <<" ">> \o CollapseSpace(StripLeft(s))
    ELSE <<Head(s)>> \o CollapseSpace(Tail(s))

\* re.sub(r"[\x00-\x08\x0b-\x0c\x0e-\x1f]", "", text)
RemoveControl(s) == SelectSeq(s, LAMBDA c : c # ControlChar)

\* re.sub(r"\n\s*\n", "\n\n", text): a newline, the white space after it up
\* to the last newline of that run.
RECURSIVE FixBlankLines(_)
FixBlankLines(s) ==
    IF s = <<>> THEN <<>>
    ELSE IF Head(s) = "\n"
    THEN LET run == Len(Tail(s)) - Len(StripLeft(Tail(s)))
             newlines == { j \in 1..run : s[j + 1] = "\n" }
         IN IF newlines # {}
            THEN LET last == CHOOSE j \in newlines :
                                \A k \in newlines : k <= j
                 IN <<"\n", "\n">>
                      \o FixBlankLines(SubSeq(s, last + 2, Len(s)))
            ELSE <<"\n">> \o FixBlankLines(Tail(s))
    ELSE <<Head(s)>> \o FixBlankLines(Tail(s))

\* DocumentProcessor._clean_text
clean_text(text) == Strip(FixBlankLines(RemoveControl(CollapseSpace(text))))

\* separators of the RecursiveCharacterTextSplitter
Separators ==
    << <<"\n", "\n">>, <<"\n">>, <<".", " ">>, <<"!", " ">>, <<"?", " ">>,
       <<" ">>, <<>> >>

\* re.split with the separator kept at the start of the piece it precedes.
RECURSIVE SplitKeep(_, _, _)
SplitKeep(text, sep, piece) ==
    IF text = <<>> THEN <<piece>>
    ELSE IF StartsWith(text, sep)
    THEN <<piece>> \o SplitKeep(SubSeq(text, Len(sep) + 1, Len(text)), sep, sep)
    ELSE SplitKeep(Tail(text), sep, Append(piece, Head(text)))

\* _split_text_with_regex(text, separator, keep_separator=True)
split_text_with_regex(text, sep) ==
    IF sep = <<>> THEN [i \in 1..Len(text) |-> <<text[i]>>]
    ELSE SelectSeq(SplitKeep(text, sep, <<>>), LAMBDA p : p # <<>>)

RECURSIVE Flatten(_)
Flatten(pieces) ==
    IF pieces = <<>> THEN <<>> ELSE Head(pieces) \o Flatten(Tail(pieces))

\* _join_docs: the joined, stripped text; nothing when it is empty.
join_docs(docs) ==
    LET text == Strip(Flatten(docs))
    IN IF text = <<>> THEN <<>> ELSE <<text>>

\* _merge_splits, the while loop that drops leading pieces of current_doc.
RECURSIVE Shrink(_, _)
Shrink(current_doc, len) ==
    LET total == Len(Flatten(current_doc))
    IN IF total > ChunkOverlap \/ (total + len > ChunkSize /\ total > 0)
       THEN Shrink(Tail(current_doc), len)
       ELSE current_doc

\* _merge_splits(splits, separator="")
RECURSIVE merge_splits(_, _, _)
merge_splits(splits, docs, current_doc) ==
    IF splits = <<>> THEN docs \o join_docs(current_doc)
    ELSE LET d == Head(splits)
             total == Len(Flatten(current_doc))
         IN IF total + Len(d) > ChunkSize /\ current_doc # <<>>
            THEN merge_splits(Tail(splits), docs \o join_docs(current_doc),
                              Append(Shrink(current_doc, Len(d)), d))
            ELSE merge_splits(Tail(splits), docs, Append(current_doc, d))

\* The first separator that is "" or occurs in text; 0 when there is none.
SeparatorIndex(text, separators) ==
    LET found == { i \in 1..Len(separators) :
                     separators[i] = <<>> \/ IsSubstring(separators[i], text) }
    IN IF found = {} THEN 0
       ELSE CHOOSE i \in found : \A j \in found : i <= j

Merged(good_splits) ==
    IF good_splits = <<>> THEN <<>> ELSE merge_splits(good_splits, <<>>, <<>>)

\* RecursiveCharacterTextSplitter._split_text and its loop over the splits.
RECURSIVE split_text(_, _)
RECURSIVE SplitLoop(_, _, _, _)
split_text(text, separators) ==
    LET k == SeparatorIndex(text, separators)
        separator == IF k = 0 THEN separators[Len(separators)]
                     ELSE separators[k]
        new_separators == IF k = 0 \/ separator = <<>> THEN <<>>
                          ELSE SubSeq(separators, k + 1, Len(separators))
    IN SplitLoop(split_text_with_regex(text, separator), new_separators,
                 <<>>, <<>>)

SplitLoop(splits, new_separators, good_splits, final_chunks) ==
    IF splits = <<>> THEN final_chunks \o Merged(good_splits)
    ELSE LET s == Head(splits)
         IN IF Len(s) < ChunkSize
            THEN SplitLoop(Tail(splits), new_separators,
                           Append(good_splits, s), final_chunks)
            ELSE SplitLoop(Tail(splits), new_separators, <<>>,
                           final_chunks \o Merged(good_splits)
                             \o (IF new_separators = <<>> THEN <<s>>
                                 ELSE split_text(s, new_separators)))

\* Mutant: chunk_index counts from 1.
chunk_text_OneBased(text, doc_id) ==
    LET chunks == split_text(text, Separators)
    IN [i \in 1..Len(chunks) |->
          [content |-> chunks[i], doc_id |-> doc_id, chunk_index |-> i,
           total_chunks |-> Len(chunks)]]

\* DocumentProcessor._chunk_text: DocumentChunk(chunk, metadata) per chunk.
chunk_text(text, doc_id) ==
    LET chunks == split_text(text, Separators)
    IN [i \in 1..Len(chunks) |->
          [content |-> chunks[i], doc_id |-> doc_id, chunk_index |-> i - 1,
           total_chunks |-> Len(chunks)]]

InitChunking ==
    /\ documents = << >>
    /\ document_chunks = {}
    /\ files = {}
    /\ task = [d \in IngestIds |-> NoTask]
    /\ del = [d \in IngestIds |-> "idle"]
    /\ search = NoSearch
    /\ conversations = [c \in {} |-> <<>>]
    /\ turn = [t \in TurnIds |-> NoTurn]
    /\ reply = NoReply
    /\ confidence = NoConfidence
    /\ \E text \in RawTexts :
         chunking = [NoChunking EXCEPT !.text = text]
    /\ planner = NoPlanner
    /\ pool = NoPool
    /\ snippets = NoSnippets

\* cleaned_text = self._clean_text(text);
\* chunks = self._chunk_text(cleaned_text, doc_id, filename, doc_type)
Chunking ==
    /\ ~chunking.called
    /\ chunking' =
         [chunking EXCEPT
            !.called = TRUE,
            !.cleaned = clean_text(chunking.text),
            !.chunks = chunk_text(clean_text(chunking.text), 1)]
    /\ UNCHANGED <<ingestVars, search, conversations, turn, confidence, reply,
                   planner, pool, snippets>>

NextChunking == Chunking

SpecChunking == InitChunking /\ [][NextChunking]_vars

-----------------------------------------------------------------------------

(* Requests on documents: validation, get, 404 *)

\* settings.max_document_size_mb
MaxDocumentSizeMb == 50

\* len(content) / (1024 * 1024)
BytesPerMb == 1048576

\* Uploaded files: with and without a filename; one byte, the largest size
\* accepted, and one byte more.
UploadFiles ==
    [filename : { <<>>, <<"a",".","p","d","f">> },
     size : { 1, MaxDocumentSizeMb * BytesPerMb,
              MaxDocumentSizeMb * BytesPerMb + 1 }]

\* Mutant: the size is compared in whole megabytes.
TooLarge_WholeMb(size) == size \div BytesPerMb > MaxDocumentSizeMb

\* file_size_mb > settings.max_document_size_mb
TooLarge(size) == size > MaxDocumentSizeMb * BytesPerMb

\* Values of the form field url.
FormUrls ==
    { <<"h","t","t","p",":","/","/","x">>, <<"h","t","t","p","s",":","/","/","x">>, <<"H","T","T","P",":","/","/","x">>, <<"f","t","p",":","/","/","x">>, <<"x">>,
      <<" ","h","t","t","p",":","/","/","x">> }

\* url.startswith(("http://", "https://"))
HasHttpScheme(url) ==
    StartsWith(url, <<"h","t","t","p",":","/","/">>) \/ StartsWith(url, <<"h","t","t","p","s",":","/","/">>)

\* error_message of a DocumentResponse the handlers never set.
NoErrorMessage == "None"

NoDocument ==
    [status |-> "none", chunk_count |-> 0, error_message |-> NoErrorMessage]

\* DocumentResponse(...) built from a row of list_documents, and the record
\* the upload endpoints build.
DocumentResponse(row) ==
    [status |-> row.status, chunk_count |-> row.chunk_count,
     error_message |-> NoErrorMessage]

\* The reply of a request on documents; n counts the requests that MaxCalls
\* bounds (an accepted upload is bounded by its fresh id, and is not counted).
DocumentReply(n, op, request, doc_id, status, document) ==
    [n |-> n, op |-> op, request |-> request, doc_id |-> doc_id,
     status |-> status, document |-> document]

\* raise HTTPException(status_code=...): the reply is all that happens.
Rejected(op, request, status) ==
    /\ reply.n < MaxCalls
    /\ reply' = DocumentReply(reply.n + 1, op, request, 0, status, NoDocument)
    /\ UNCHANGED <<ingestVars, search, conversations, turn, confidence, chunking, planner, pool, snippets>>

\* POST /documents/upload with `file`; d is the uuid4 drawn when the file is
\* accepted.
upload_file(d, file) ==
    IF file.filename = <<>> THEN Rejected("upload", file, 400)
    ELSE IF TooLarge(file.size) THEN Rejected("upload", file, 413)
    ELSE /\ task[d].kind = "none"
         /\ documents' = (d :> NewDocument) @@ documents
         /\ task' = [task EXCEPT ![d] = NewTask("file", "start", <<>>, 1)]
         /\ reply' = DocumentReply(reply.n, "upload", file, d, 200,
                                   DocumentResponse(NewDocument))
         /\ UNCHANGED <<document_chunks, files, del, search, conversations,
                        turn, confidence, chunking, planner, pool, snippets>>

post_upload(d) == \E file \in UploadFiles : upload_file(d, file)

\* POST /documents/url with the form field `url`.
add_url(d, url) ==
    IF ~HasHttpScheme(url) THEN Rejected("url", url, 400)
    ELSE /\ task[d].kind = "none"
         /\ documents' = (d :> NewDocument) @@ documents
         /\ task' = [task EXCEPT ![d] = NewTask("url", "process", <<>>, 1)]
         /\ reply' = DocumentReply(reply.n, "url", url, d, 200,
                                   DocumentResponse(NewDocument))
         /\ UNCHANGED <<document_chunks, files, del, search, conversations,
                        turn, confidence, chunking, planner, pool, snippets>>

post_url(d) == \E url \in FormUrls : add_url(d, url)

\* GET /documents/{doc_id}
get_document(d) ==
    /\ reply.n < MaxCalls
    /\ reply' = IF Exists(d)
                THEN DocumentReply(reply.n + 1, "get_document", d, d, 200,
                                   DocumentResponse(documents[d]))
                ELSE DocumentReply(reply.n + 1, "get_document", d, d, 404,
                                   NoDocument)
    /\ UNCHANGED <<ingestVars, search, conversations, turn, confidence, chunking, planner, pool, snippets>>

\* DELETE /documents/{doc_id} of an id list_documents does not hold.
DeleteNotFound(d) ==
    /\ del[d] = "idle"
    /\ ~Exists(d)
    /\ reply.n < MaxCalls
    /\ reply' = DocumentReply(reply.n + 1, "delete_document", d, d, 404,
                              NoDocument)
    /\ UNCHANGED <<ingestVars, search, conversations, turn, confidence, chunking, planner, pool, snippets>>

\* The store is empty and one thread is left by an earlier chat turn.
InitDocuments ==
    /\ documents = << >>
    /\ document_chunks = {}
    /\ files = {}
    /\ task = [d \in IngestIds |-> NoTask]
    /\ del = [d \in IngestIds |-> "idle"]
    /\ search = NoSearch
    /\ conversations = [c \in { "c1" } |-> PriorThread]
    /\ turn = [t \in TurnIds |-> NoTurn]
    /\ reply = NoReply
    /\ chunking = NoChunking
    /\ planner = NoPlanner
    /\ pool = NoPool
    /\ snippets = NoSnippets
    /\ confidence = NoConfidence

NextDocuments ==
    \/ \E d \in IngestIds :
        \/ post_upload(d)
        \/ post_url(d)
        \/ get_document(d)
        \/ SetProcessing(d)
        \/ process_file(d)
        \/ process_url(d)
        \/ InsertChunk(d)
        \/ UpdateCount(d)
        \/ SetCompleted(d)
        \/ MarkFailed(d)
        \/ Handler(d)
        \/ FinalCheckRead(d)
        \/ FinalCheckWrite(d)
        \/ DeleteLookup(d)
        \/ DeleteNotFound(d)
        \/ DeleteChunks(d)
        \/ DeleteDoc(d)
        \/ DeleteFiles(d)
    \/ \E conversation_id \in ThreadConvIds :
        \/ get_conversation(conversation_id)
        \/ delete_conversation(conversation_id)

SpecDocuments == InitDocuments /\ [][NextDocuments]_vars

-----------------------------------------------------------------------------

(* Properties of ingestion (Spec, SpecStore) *)

Terminal == {"completed", "failed"}

\* C1: once the file ingestion task has finished, final check included, the
\* document (if it still exists) is completed or failed, never processing.
C1_FileTerminal ==
    \A d \in IngestIds :
        (task[d].kind = "file" /\ task[d].pc = "done" /\ Exists(d))
            => documents[d].status \in Terminal

\* A file task that ended with the final check having forced 'failed'.
C1_Witness ==
    \E d \in IngestIds :
        /\ task[d].kind = "file" /\ task[d].pc = "done" /\ task[d].forced
        /\ Exists(d) /\ documents[d].status = "failed"

\* C2: once the URL ingestion task has ended, the document (if it still
\* exists) is completed or failed, never processing.
C2_UrlTerminal ==
    \A d \in IngestIds :
        (task[d].kind = "url" /\ task[d].pc = "done" /\ Exists(d))
            => documents[d].status \in Terminal

\* C3: every change of a document's status is processing -> completed or
\* processing -> failed; a completed or failed status is never changed by a
\* later step of the attempt.
C3_StatusMonotone ==
    [][ \A d \in IngestIds :
          (/\ d \in DOMAIN documents
           /\ d \in DOMAIN documents'
           /\ documents'[d].status # documents[d].status)
              => (/\ documents[d].status = "processing"
                  /\ documents'[d].status \in Terminal) ]_vars

\* A terminal status with steps of the attempt still to come: the try body
\* or the except block wrote it and the final check has not run yet.
C3_Witness ==
    \E d \in IngestIds :
        /\ task[d].pc = "finally"
        /\ Exists(d) /\ documents[d].status \in Terminal

\* C8: at most one chunk row per (doc_id, chunk_index), after any number of
\* ingestions of the same doc_id.
C8_OneRowPerIndex ==
    \A r1, r2 \in document_chunks :
        (r1.doc_id = r2.doc_id /\ r1.chunk_index = r2.chunk_index) => r1 = r2

\* A second ingestion has rewritten index 0 (content and metadata of the new
\* list) while index 1 still holds the row of the earlier, longer ingestion.
C8_Witness ==
    \E d \in IngestIds :
        /\ task[d].attempt = 2 /\ task[d].i = 2 /\ Len(task[d].chunks) = 1
        /\ \E r \in document_chunks :
              /\ r.doc_id = d /\ r.chunk_index = 0
              /\ r.content = task[d].chunks[1] /\ r.total_chunks = 1
        /\ \E r \in document_chunks :
              r.doc_id = d /\ r.chunk_index = 1 /\ r.total_chunks = 2

\* C9: after add_document_chunks returned for a non-empty list, chunk_count
\* is the length of that list and the status is completed.
C9_CountAndStatus ==
    \A d \in IngestIds :
        (task[d].added /\ Exists(d))
            => /\ documents[d].chunk_count = Len(task[d].chunks)
               /\ documents[d].status = "completed"

\* The call returned for a document ingested before with a different count.
C9_Witness ==
    \E d \in IngestIds :
        /\ task[d].attempt = 2 /\ task[d].added /\ Exists(d)
        /\ Len(task[d].chunks) = 1
        /\ \E r \in document_chunks : r.doc_id = d /\ r.total_chunks = 2

-----------------------------------------------------------------------------
(* Properties of search (SpecSearch) *)

\* Chunks of the documents in `ids` that the statements can see.
ScopedChunks(ids) ==
    { r \in document_chunks : r.doc_id \in ids /\ r.doc_id \in DOMAIN documents }

\* C4: search with doc_ids = [] returns no source.
C4_EmptyScopeEmpty ==
    (search.called /\ ~search.scope.none /\ search.scope.ids = {})
        => search.sources = <<>>

\* doc_ids = [] while a stored chunk matches the query.
C4_Witness ==
    /\ search.called /\ ~search.scope.none /\ search.scope.ids = {}
    /\ \E r \in document_chunks :
          IsSubstring(LowerText(Strip(search.query)), LowerText(r.content))

\* C6: search with a non-empty doc_ids returns only sources of those
\* documents.
C6_ScopedOnly ==
    (search.called /\ ~search.scope.none /\ search.scope.ids # {})
        => \A i \in 1..Len(search.sources) :
              search.sources[i].document_id \in search.scope.ids

\* A fallback result for doc_ids = [1] while a chunk of document 2 contains
\* the query.
C6_Witness ==
    /\ search.called /\ ~search.scope.none /\ search.scope.ids = {1}
    /\ search.sources # <<>>
    /\ search.sources[1].relevance_score = ScoreFallback
    /\ \E r \in document_chunks :
          /\ r.doc_id = 2
          /\ IsSubstring(LowerText(Strip(search.query)), LowerText(r.content))

\* Whether the text contains the raw query or an extracted term, ignoring
\* case.
ContainsQueryOrTerm(content, query_text, query_terms) ==
    \/ IsSubstring(LowerText(query_text), LowerText(content))
    \/ \E t \in Range(query_terms) : IsSubstring(t, LowerText(content))

\* C7: with a non-empty doc_ids, the result is the fallback (the first
\* n_results chunks of those documents by (doc_id, chunk_index), each with
\* score 0.45) exactly when no chunk of those documents contains the raw
\* query or an extracted term; otherwise every row scores 1.0 or 0.7.
C7_FallbackExactly ==
    (search.called /\ ~search.scope.none /\ search.scope.ids # {})
        => LET query_text == Strip(search.query)
               query_terms == extract_query_terms(query_text)
               scoped == ScopedChunks(search.scope.ids)
               hit == \E r \in scoped :
                         ContainsQueryOrTerm(r.content, query_text, query_terms)
               rows == search.rows
           IN IF hit
              THEN /\ rows # <<>>
                   /\ \A i \in 1..Len(rows) :
                         rows[i].rank_score \in {ScoreExact, ScoreTerm}
              ELSE /\ Len(rows) = Min(search.n_results, Cardinality(scoped))
                   /\ \A i \in 1..Len(rows) :
                         /\ rows[i].rank_score = ScoreFallback
                         /\ \A j \in 1..Len(rows) :
                               i < j => /\ rows[i] # rows[j]
                                        /\ FallbackOrder(rows[i], rows[j])
                   /\ \A r \in scoped :
                         (\A i \in 1..Len(rows) :
                             ~(rows[i].doc_id = r.doc_id
                               /\ rows[i].chunk_index = r.chunk_index))
                           => \A i \in 1..Len(rows) :
                                 FallbackOrder(rows[i], r)

\* The query "50%" against a document whose chunk reads "1950": returned
\* with score 1.0.
C7_Witness ==
    /\ search.called /\ ~search.scope.none /\ search.scope.ids # {}
    /\ search.query = <<"5","0","%">>
    /\ search.rows # <<>>
    /\ search.rows[1].rank_score = ScoreExact


-----------------------------------------------------------------------------
(* Properties of chat turns (SpecChat) *)

IsInternal(s) == s.source_type = "internal_document"

\* C5: on both chat endpoints, a turn whose request carries doc_ids = []
\* surfaces no internal-document source, whatever the store holds.
C5_EmptyDocIdsNoInternal ==
    \A t \in TurnIds :
        (/\ turn[t].pc # "idle"
         /\ turn[t].request.doc_ids = Scope({}))
        => /\ \A i \in 1..Len(turn[t].all_sources) :
                ~IsInternal(turn[t].all_sources[i])
           /\ \A i \in 1..Len(turn[t].events) :
                turn[t].events[i].event \in { "response", "sources" }
                => \A j \in 1..Len(turn[t].events[i].sources) :
                     ~IsInternal(turn[t].events[i].sources[j])

\* The streaming endpoint answered a doc_ids = [] request over a store that
\* holds a matching chunk.
C5_Witness ==
    \E t \in TurnIds :
        /\ turn[t].endpoint = "stream"
        /\ turn[t].pc = "done"
        /\ turn[t].request.doc_ids = Scope({})
        /\ \E r \in document_chunks :
             LexicalMatch(r.content, Strip(turn[t].request.message),
                          extract_query_terms(Strip(turn[t].request.message)))

\* The sources a finished aggregation surfaced.
Surfaced(t, s) == \E i \in 1..Len(turn[t].all_sources) :
                     turn[t].all_sources[i] = s

Aggregated(t) == turn[t].pc \in { "tokens", "done", "closed" }
                   /\ (turn[t].endpoint = "stream" => Len(turn[t].events) >= 2)

\* C10: in a chat turn an internal source is surfaced iff its score is
\* >= 0.75 when web search ran and returned at least one source, and iff its
\* score is >= 0.4 otherwise; a web source is surfaced iff its score is
\* >= 0.4.
C10_Thresholds ==
    \A t \in TurnIds :
        Aggregated(t) =>
          LET tn == turn[t]
              ran_with_results == tn.web_ran /\ tn.web_sources # <<>>
          IN /\ \A i \in 1..Len(tn.internal_sources) :
                  LET s == tn.internal_sources[i]
                  IN Surfaced(t, s) <=>
                       IF ran_with_results THEN s.relevance_score >= 75
                       ELSE s.relevance_score >= 40
             /\ \A i \in 1..Len(tn.web_sources) :
                  LET s == tn.web_sources[i]
                  IN Surfaced(t, s) <=> s.relevance_score >= 40
             /\ \A i \in 1..Len(tn.all_sources) :
                  \/ \E j \in 1..Len(tn.internal_sources) :
                       tn.internal_sources[j] = tn.all_sources[i]
                  \/ \E j \in 1..Len(tn.web_sources) :
                       tn.web_sources[j] = tn.all_sources[i]

\* Web search ran and returned a source, and an internal source scored 0.7
\* was found and left out.
C10_Witness ==
    \E t \in TurnIds :
        /\ Aggregated(t)
        /\ turn[t].web_ran
        /\ turn[t].web_sources # <<>>
        /\ \E i \in 1..Len(turn[t].internal_sources) :
             /\ turn[t].internal_sources[i].relevance_score = ScoreTerm
             /\ ~Surfaced(t, turn[t].internal_sources[i])

\* C11: a chat turn whose message contains a URL surfaces web_search sources
\* only, each obtained by direct extraction with score 1.0.
C11_UrlTurnWebOnly ==
    \A t \in TurnIds :
        (Aggregated(t) /\ turn[t].urls # <<>>)
        => \A i \in 1..Len(turn[t].all_sources) :
             /\ turn[t].all_sources[i].source_type = "web_search"
             /\ turn[t].all_sources[i].relevance_score = 100

\* A URL turn whose extraction succeeded, answered over a non-empty scope.
C11_Witness ==
    \E t \in TurnIds :
        /\ Aggregated(t) /\ turn[t].urls # <<>>
        /\ turn[t].web_sources # <<>>
        /\ HasDocIds(turn[t].request.doc_ids)

\* The turn has passed PRIORITY 1 (URL extraction, or planner and web search).
GatheredWeb(t) == turn[t].pc \in { "search", "tokens", "done", "error", "closed" }
                    /\ turn[t].calls # <<>>

Called(t, name) == \E i \in 1..Len(turn[t].calls) : turn[t].calls[i] = name

\* C12: when the message contains a URL the turn calls direct extraction
\* only: neither the planner nor web search is invoked, also under
\* force_web_search.
C12_UrlExtractOnly ==
    \A t \in TurnIds :
        (GatheredWeb(t) /\ detect_urls(turn[t].request.message) # <<>>)
        => /\ Called(t, "tavily.extract")
           /\ ~Called(t, "plan_web_search")
           /\ ~Called(t, "tavily.search")

\* A URL turn with force_web_search set has passed PRIORITY 1.
C12_Witness ==
    \E t \in TurnIds :
        /\ GatheredWeb(t)
        /\ detect_urls(turn[t].request.message) # <<>>
        /\ turn[t].request.force_web_search
        /\ Called(t, "tavily.extract")

-----------------------------------------------------------------------------
(* Properties of the confidence score (SpecConfidence) *)

\* The sum of the scores of sources[1..k], in hundredths.
RECURSIVE ScoreTotal(_, _)
ScoreTotal(sources, k) ==
    IF k = 0 THEN 0
    ELSE sources[k].relevance_score + ScoreTotal(sources, k - 1)

\* The call was made with one internal source scored 0.9 and one web source
\* scored 0.5.
ExampleCall ==
    /\ confidence.called
    /\ Len(confidence.internal_sources) = 1
    /\ confidence.internal_sources[1].relevance_score = 90
    /\ Len(confidence.web_sources) = 1
    /\ confidence.web_sources[1].relevance_score = 50

EmptyCall ==
    /\ confidence.called
    /\ confidence.internal_sources = <<>>
    /\ confidence.web_sources = <<>>

\* C13 as stated: the confidence score for one internal source scored 0.9
\* and one web source scored 0.5 is 1.0, and for zero sources it is 0.0.
C13_ExampleIsOne ==
    /\ ExampleCall => confidence.result.num = 1000 * confidence.result.den
    /\ EmptyCall => confidence.result.num = 0

\* C13 amended: the confidence score for one internal source scored 0.9 and
\* one web source scored 0.5 is (0.9 x 1.2 + 0.5 x 0.8) / 2 = 0.74, and for
\* zero sources it is 0.0.
C13_ExampleIsWeightedMean ==
    /\ ExampleCall => confidence.result.num = 740 * confidence.result.den
    /\ EmptyCall => confidence.result.num = 0

C13_Witness == ExampleCall

\* C14: the result is min(1.0, (sum of 1.2 x score over internal sources +
\* sum of 0.8 x score over web sources) / number of sources), 0.0 without
\* sources, and so lies in [0.0, 1.0].
C14_WeightedMeanCapped ==
    confidence.called =>
      LET r == confidence.result
          n == Len(confidence.internal_sources) + Len(confidence.web_sources)
          weighted ==
              12 * ScoreTotal(confidence.internal_sources,
                              Len(confidence.internal_sources))
              + 8 * ScoreTotal(confidence.web_sources,
                               Len(confidence.web_sources))
      IN /\ r.den > 0
         /\ n = 0 => r.num = 0
         /\ n > 0 => r.num * n = Min(1000 * n, weighted) * r.den
         /\ 0 <= r.num /\ r.num <= 1000 * r.den

\* A call whose weighted mean exceeds 1.0 returned 1.0.
C14_Witness ==
    /\ confidence.called
    /\ \E i \in 1..Len(confidence.internal_sources) :
         confidence.internal_sources[i].relevance_score = 100
    /\ confidence.web_sources = <<>>
    /\ confidence.result.num = 1000 * confidence.result.den

\* C15: a streaming turn emits metadata first, then either sources, zero or
\* more tokens and done, or an error event carrying the conversation id in
\* place of the remainder; done or error is the last event, a turn that ran
\* to its end has emitted exactly one of them, and no token precedes sources.
C15_StreamEventOrder ==
    \A t \in TurnIds :
        turn[t].endpoint = "stream" =>
          LET e == turn[t].events
              n == Len(e)
          IN /\ n >= 1 /\ e[1].event = "metadata"
             /\ e[1].conversation_id = turn[t].conversation_id
             /\ \A i \in 2..n : e[i].event # "metadata"
             /\ \A i \in 1..n : e[i].event \in { "done", "error" } => i = n
             /\ \A i \in 1..n : e[i].event = "sources" => i = 2
             /\ \A i \in 1..n : e[i].event \in { "token", "done" }
                                   => i > 2 /\ e[2].event = "sources"
             /\ \A i \in 1..n : e[i].event = "error"
                                   => e[i].conversation_id
                                        = turn[t].conversation_id
             /\ turn[t].pc = "done" <=> e[n].event = "done"
             /\ turn[t].pc = "error" <=> e[n].event = "error"

\* A stream that ran to done after two token events.
C15_Witness ==
    \E t \in TurnIds :
        /\ turn[t].endpoint = "stream" /\ turn[t].pc = "done"
        /\ Len(turn[t].events) = 5
        /\ turn[t].events[3].event = "token"
        /\ turn[t].events[4].event = "token"

\* A stream that ended with the error event right after metadata.
StreamErrorEnds ==
    \E t \in TurnIds :
        /\ turn[t].endpoint = "stream" /\ turn[t].pc = "error"
        /\ Len(turn[t].events) = 2

OtherEndpoint(endpoint) == IF endpoint = "chat" THEN "stream" ELSE "chat"

\* The generator arguments `endpoint` computes for the request of turn tn,
\* with the web outcome and the history of tn and the store as it is.
HandOvers(endpoint, tn) ==
    { [query |-> tn.request.message,
       internal_sources |->
           FilterSources(rows_to_sources(rows),
                         internal_threshold(tn.use_web_search,
                                            tn.web_sources)),
       web_sources |-> FilterSources(tn.web_sources, ThresholdWeak),
       conversation_history |-> tn.generator.conversation_history,
       has_uploaded_documents |-> HasUploaded(endpoint, tn.request.doc_ids)] :
      rows \in SearchRows(documents, document_chunks, tn.request.message,
                          tn.request.max_internal_sources,
                          SearchScope(endpoint, tn.request.doc_ids)) }

\* C16: what one endpoint hands to the answer generator (internal sources,
\* web sources, history, has_uploaded_documents) for a request, the other
\* endpoint hands over too for the same request, store and provider outcome,
\* for every value of doc_ids.
C16_SameHandOver ==
    \A t \in TurnIds :
        turn[t].generator # NoArgs =>
            turn[t].generator
                \in HandOvers(OtherEndpoint(turn[t].endpoint), turn[t])

\* The endpoints agree when doc_ids names at least one document.
SameHandOverWithDocIds ==
    \A t \in TurnIds :
        turn[t].generator # NoArgs /\ HasDocIds(turn[t].request.doc_ids) =>
            turn[t].generator
                \in HandOvers(OtherEndpoint(turn[t].endpoint), turn[t])

\* Each endpoint hands over what the model says it computes.
OwnHandOver ==
    \A t \in TurnIds :
        turn[t].generator # NoArgs =>
            turn[t].generator \in HandOvers(turn[t].endpoint, turn[t])

\* A non-streaming turn without doc_ids handed an internal source to the
\* generator; the streaming endpoint searches no document for that request.
C16_Witness ==
    \E t \in TurnIds :
        /\ turn[t].endpoint = "chat"
        /\ turn[t].generator # NoArgs
        /\ turn[t].request.doc_ids.none
        /\ turn[t].generator.internal_sources # <<>>
        /\ HandOvers("stream", turn[t])
             = { [turn[t].generator EXCEPT !.internal_sources = <<>>] }

\* The calls the handlers make outside the planner, the web provider and the
\* answer model.
OwnFailures == { "document_store.search", "conversations" }

ProviderCalls ==
    { "plan_web_search", "tavily.search", "tavily.extract",
      "generate_response", "stream_response" }

\* C17: a failed planner call, web-search or URL-extract call, or
\* answer-generation call never fails the turn: a turn ends in an error only
\* when the document search or the conversation lookup raised, and a turn
\* that ended otherwise returned its answer (response, or done event) and
\* appended it as the assistant message of the thread.
C17_ProviderFailureNotFatal ==
    \A t \in TurnIds :
        LET tn == turn[t]
            e == tn.events
            h == conversations[tn.conversation_id]
        IN /\ tn.failures \subseteq OwnFailures \cup ProviderCalls
           /\ tn.pc = "error" => tn.failures \cap OwnFailures # {}
           /\ tn.pc = "done" =>
                /\ e[Len(e)].event \in { "response", "done" }
                /\ e[Len(e)].answer = tn.full_response
                /\ Len(h) >= 2
                /\ h[Len(h)] = ChatMessage("assistant", tn.full_response)
                /\ h[Len(h) - 1] = ChatMessage("user", tn.request.message)

\* A streaming turn reached done although the web search and the model call
\* both failed.
C17_Witness ==
    \E t \in TurnIds :
        /\ turn[t].pc = "done" /\ turn[t].endpoint = "stream"
        /\ { "tavily.search", "stream_response" } \subseteq turn[t].failures

\* Every provider call fails in some turn that ends with an answer.
FailedAndDone(name) ==
    \E t \in TurnIds : turn[t].pc = "done" /\ name \in turn[t].failures

NoPlannerFailureDone == ~FailedAndDone("plan_web_search")

NoExtractFailureDone == ~FailedAndDone("tavily.extract")

NoGenerateFailureDone == ~FailedAndDone("generate_response")

\* The token events of a turn, in order.
TokenEvents(tn) == SelectSeq(tn.events, LAMBDA e : e.event = "token")

\* C18: when the model call of a streaming turn failed, the apology is the
\* only token event of the stream and the done answer is the apology.
C18_ApologyOnlyToken ==
    \A t \in TurnIds :
        LET tn == turn[t]
            e == tn.events
        IN tn.endpoint = "stream" /\ "stream_response" \in tn.failures =>
             /\ \A i \in 1..Len(e) :
                    e[i].event = "token" => e[i].content = Apology
             /\ Len(TokenEvents(tn)) <= 1
             /\ tn.pc = "done" => e[Len(e)].answer = Apology

\* The model call failed after the token "o" was streamed: the stream holds
\* the token "o", then the apology, and done carries both.
C18_Witness ==
    \E t \in TurnIds :
        /\ turn[t].endpoint = "stream" /\ turn[t].pc = "done"
        /\ "stream_response" \in turn[t].failures
        /\ Len(TokenEvents(turn[t])) = 2
        /\ TokenEvents(turn[t])[1].content = <<"o">>
        /\ TokenEvents(turn[t])[2].content = Apology
        /\ turn[t].events[Len(turn[t].events)].answer = <<"o">> \o Apology

\* A model call that fails before its first token keeps the claim.
ApologyOnlyTokenAtOnce ==
    \A t \in TurnIds :
        LET tn == turn[t]
            e == tn.events
        IN /\ tn.endpoint = "stream" /\ tn.pc = "done"
           /\ "stream_response" \in tn.failures
           /\ TokenEvents(tn)[1].content = Apology
           => /\ Len(TokenEvents(tn)) = 1
              /\ e[Len(e)].answer = Apology

\* The messages stored under conversation id c, if any.
History(convs, c) == IF c \in DOMAIN convs THEN <<convs[c]>> ELSE <<>>

\* This step belongs to a chat turn, a get or a delete on conversation id c.
ActedOn(c) ==
    \/ \E t \in TurnIds : turn'[t] # turn[t] /\ turn'[t].conversation_id = c
    \/ reply' # reply /\ reply'.conversation_id = c

\* This step of turn t calls the answer generator.
CallsGenerator(t) ==
    turn[t].generator = NoArgs /\ turn'[t].generator # NoArgs

\* C19: a step of a chat turn (streaming or not), of a get or of a delete on
\* conversation id A leaves the history of every other id unchanged, and the
\* history a turn on A hands to the generator is taken from the messages of A
\* and holds no user message of a concurrent turn on another id.
C19_ThreadsIsolated ==
    [][ /\ \A c \in ThreadConvIds :
              History(conversations', c) # History(conversations, c)
                 => ActedOn(c)
        /\ \A t \in TurnIds :
              CallsGenerator(t) =>
                LET h == turn'[t].generator.conversation_history
                IN /\ h = AllButLast(conversations[turn[t].conversation_id])
                   /\ \A u \in TurnIds \ { t } :
                        turn[u].conversation_id # turn[t].conversation_id
                          => \A i \in 1..Len(h) :
                               h[i] # ChatMessage("user",
                                                  turn[u].request.message)
      ]_vars

\* Both turns ran to done on different threads, the thread of turn 1 was
\* then deleted, and the thread of turn 2 holds its own two messages.
C19_Witness ==
    /\ turn[1].pc = "done" /\ turn[2].pc = "done"
    /\ turn[1].endpoint = "chat" /\ turn[2].endpoint = "stream"
    /\ turn[1].conversation_id = "c1" /\ turn[2].conversation_id = "c2"
    /\ turn[1].generator.conversation_history = PriorThread
    /\ turn[2].generator.conversation_history = <<>>
    /\ reply.op = "delete" /\ reply.conversation_id = "c1"
    /\ reply.status = 200
    /\ DOMAIN conversations = { "c2" }
    /\ conversations["c2"]
         = << ChatMessage("user", ThreadMessage(2)),
              ChatMessage("assistant", turn[2].full_response) >>

\* A get serves the thread as it is, and 404 when it is absent.
GetServesThread ==
    reply.op = "get" =>
        /\ reply.status \in { 200, 404 }
        /\ reply.status = 404 => reply.messages = <<>>

\* The first position of message m in history h; 0 when h lacks it.
Position(h, m) ==
    IF \E i \in 1..Len(h) : h[i] = m
    THEN CHOOSE i \in 1..Len(h) :
            h[i] = m /\ \A j \in 1..(i - 1) : h[j] # m
    ELSE 0

UserMessage(t) == ChatMessage("user", turn[t].request.message)

\* Turns t and u are on one thread, t arrived first, and the thread holds
\* the user message of both.
BothAppended(t, u) ==
    /\ turn[t].arrival >= 1
    /\ turn[t].arrival < turn[u].arrival
    /\ turn[t].conversation_id = turn[u].conversation_id
    /\ turn[t].conversation_id \in DOMAIN conversations
    /\ Position(conversations[turn[t].conversation_id], UserMessage(t)) # 0
    /\ Position(conversations[turn[t].conversation_id], UserMessage(u)) # 0

\* C20: within one thread the user messages stand in the history in the
\* arrival order of their requests, on both endpoints, also when the turns
\* overlap.
C20_ArrivalOrder ==
    \A t, u \in TurnIds :
        BothAppended(t, u) =>
            Position(conversations[turn[t].conversation_id], UserMessage(t))
              < Position(conversations[turn[t].conversation_id],
                         UserMessage(u))

\* A streaming request arrived first, and the thread holds the user message
\* of the request that arrived after it before its own.
C20_Witness ==
    \E t, u \in TurnIds :
        /\ BothAppended(t, u)
        /\ turn[t].endpoint = "stream"
        /\ Position(conversations[turn[t].conversation_id], UserMessage(u))
             < Position(conversations[turn[t].conversation_id],
                        UserMessage(t))

\* When the request that arrived first is non-streaming, the order is kept.
ChatFirstKeepsOrder ==
    \A t, u \in TurnIds :
        BothAppended(t, u) /\ turn[t].endpoint = "chat" =>
            Position(conversations[turn[t].conversation_id], UserMessage(t))
              < Position(conversations[turn[t].conversation_id],
                         UserMessage(u))

\* The first n characters of s (all of s when it is shorter).
Leading(s, n) == SubSeq(s, 1, Min(n, Len(s)))

\* This step is the reply to a request `op` on documents.
Replies(op) == reply' # reply /\ reply'.op = op

\* C21: an upload larger than the configured maximum gets the size-limit
\* error (413) and a URL without the http:// or https:// prefix gets 400;
\* in both cases no document record is created, no ingestion task is
\* scheduled, and nothing else of the state changes.
C21_RejectedWithoutEffect ==
    [][ /\ Replies("upload")
           /\ reply'.request.filename # <<>>
           /\ reply'.request.size > MaxDocumentSizeMb * BytesPerMb
           => /\ reply'.status = 413
              /\ UNCHANGED <<documents, document_chunks, files, task, del,
                             conversations>>
        /\ Replies("url")
           /\ Leading(reply'.request, 7) # <<"h","t","t","p",":","/","/">>
           /\ Leading(reply'.request, 8) # <<"h","t","t","p","s",":","/","/">>
           => /\ reply'.status = 400
              /\ UNCHANGED <<documents, document_chunks, files, task, del,
                             conversations>>
      ]_vars

\* A named file one byte over the maximum was rejected with 413: no
\* document, no task.
C21_Witness ==
    /\ reply.op = "upload" /\ reply.status = 413
    /\ reply.request.size = MaxDocumentSizeMb * BytesPerMb + 1
    /\ documents = << >>
    /\ task[1].kind = "none"

\* A URL without the prefix was rejected with 400.
UrlRejected ==
    /\ reply.op = "url" /\ reply.status = 400
    /\ reply.request = <<"f","t","p",":","/","/","x">>
    /\ documents = << >>

\* A file of exactly the maximum size is accepted.
LargestAccepted ==
    /\ reply.op = "upload" /\ reply.status = 200
    /\ reply.request.size = MaxDocumentSizeMb * BytesPerMb
    /\ task[1].kind = "file"

\* C22: every stored chunk belongs to an existing document; once a document
\* is deleted no chunk of its id remains or appears, also when its ingestion
\* is still running.
C22_ChunksOwned ==
    \A r \in document_chunks : r.doc_id \in DOMAIN documents

\* The delete of document 1 ran to its end while the ingestion had inserted
\* its first chunk and had another to insert; the next INSERT raised.
C22_Witness ==
    /\ ~Exists(1)
    /\ del[1] = "idle"
    /\ task[1].kind = "file"
    /\ task[1].pc = "handler"
    /\ task[1].i = 2 /\ Len(task[1].chunks) = 2
    /\ document_chunks = {}

\* A DELETE /documents/{doc_id} of document d ran to its end: the record is
\* gone and the handler is past its rmtree.
Deleted(d) == task[d].kind # "none" /\ ~Exists(d) /\ del[d] = "idle"

\* C23: after the delete of a document has completed, no file artifact
\* documents/<doc_id> exists, also when the delete interleaves with the
\* document's ingestion.
C23_NoFileAfterDelete ==
    \A d \in IngestIds : Deleted(d) => d \notin files

\* The delete completed before the ingestion task reached process_file; the
\* task then saved the file of the deleted document and ended.
C23_Witness ==
    /\ Deleted(1)
    /\ task[1].kind = "file" /\ task[1].pc = "done"
    /\ 1 \in files
    /\ document_chunks = {}

\* Only the ingestion of an uploaded file leaves an artifact behind.
FileLeftByFileTask ==
    \A d \in IngestIds : Deleted(d) /\ d \in files => task[d].kind = "file"

\* C24: get or delete of an unknown document id, and get or delete of an
\* unknown conversation id, reply 404 and leave the document store and the
\* conversation map as they are; reading an unknown conversation id does not
\* create the thread, and a delete starts its work only for a known id.
C24_UnknownIs404 ==
    [][ /\ reply' # reply /\ reply'.op \in { "get_document", "delete_document" }
           /\ reply'.doc_id \notin DOMAIN documents
           => /\ reply'.status = 404
              /\ UNCHANGED <<ingestVars, conversations>>
        /\ reply' # reply /\ reply'.op \in { "get", "delete" }
           /\ reply'.conversation_id \notin DOMAIN conversations
           => /\ reply'.status = 404
              /\ UNCHANGED <<ingestVars, conversations>>
        /\ \A d \in IngestIds :
              del[d] = "idle" /\ del'[d] # "idle" => d \in DOMAIN documents
      ]_vars

\* The unknown conversation "c2" was read: 404, and the map still holds
\* the thread "c1" only.
C24_Witness ==
    /\ reply.op = "get" /\ reply.conversation_id = "c2"
    /\ reply.status = 404
    /\ DOMAIN conversations = { "c1" }

UnknownDocumentRead ==
    reply.op = "get_document" /\ reply.status = 404 /\ documents = << >>

UnknownDocumentDeleted ==
    reply.op = "delete_document" /\ reply.status = 404 /\ documents = << >>

UnknownConversationDeleted ==
    /\ reply.op = "delete" /\ reply.conversation_id = "c2"
    /\ reply.status = 404
    /\ DOMAIN conversations = { "c1" }

\* The ingestion task of document d has ended without completing it.
IngestionFailed(d) ==
    /\ task[d].kind \in { "file", "url" }
    /\ task[d].pc \in { "done", "aborted" }
    /\ ~task[d].added

\* C25: after a failed ingestion a get of the document returns status
\* failed together with the recorded error_message.
C25_FailureRecorded ==
    [][ \A d \in IngestIds :
          /\ IngestionFailed(d)
          /\ reply' # reply /\ reply'.op = "get_document"
          /\ reply'.doc_id = d /\ reply'.status = 200
          => /\ reply'.document.status = "failed"
             /\ reply'.document.error_message # NoErrorMessage
      ]_vars

\* The file ingestion failed and marked the document failed; the get that
\* followed returned status failed without an error_message.
C25_Witness ==
    /\ IngestionFailed(1)
    /\ task[1].kind = "file" /\ task[1].pc = "done"
    /\ reply.op = "get_document" /\ reply.status = 200
    /\ reply.document.status = "failed"
    /\ reply.document.error_message = NoErrorMessage

\* What the code does keep for uploaded files: a failed file ingestion whose
\* final check ran is read back as failed.
FailedFileReadAsFailed ==
    [][ \A d \in IngestIds :
          /\ IngestionFailed(d) /\ task[d].kind = "file" /\ task[d].pc = "done"
          /\ reply' # reply /\ reply'.op = "get_document"
          /\ reply'.doc_id = d /\ reply'.status = 200
          => reply'.document.status = "failed"
      ]_vars

\* C26: for a non-empty cleaned text chunking returns at least one chunk,
\* chunk i carries chunk_index i (from 0), and every chunk's total_chunks is
\* the number of chunks returned.
C26_ChunkMetadata ==
    chunking.called =>
        /\ chunking.cleaned # <<>> => Len(chunking.chunks) >= 1
        /\ \A i \in 1..Len(chunking.chunks) :
              /\ chunking.chunks[i].chunk_index = i - 1
              /\ chunking.chunks[i].total_chunks = Len(chunking.chunks)

\* A text that is cut into several chunks.
C26_Witness ==
    /\ chunking.called
    /\ Len(chunking.chunks) >= 2
    /\ chunking.chunks[2].chunk_index = 1

\* No chunk is empty or carries leading or trailing white space.
ChunksStripped ==
    \A i \in 1..Len(chunking.chunks) :
        /\ chunking.chunks[i].content # <<>>
        /\ Strip(chunking.chunks[i].content) = chunking.chunks[i].content

\* The rows of the lexical tier in the result of the search.
LexicalRows ==
    { i \in 1..Len(search.rows) :
        search.rows[i].rank_score \in { ScoreExact, ScoreTerm } }

ContainsQuery(content, query_text) ==
    IsSubstring(LowerText(query_text), LowerText(content))

ContainsTerm(content, query_terms) ==
    \E t \in Range(query_terms) : IsSubstring(t, LowerText(content))

\* C27: in scoped and in global search a lexical source scores 1.0 iff its
\* chunk contains the raw query as a case-insensitive substring, 0.7 iff it
\* does not but contains an extracted term; a chunk with neither is never a
\* lexical source.
C27_LexicalScores ==
    search.called =>
        LET query_text == Strip(search.query)
            query_terms == extract_query_terms(query_text)
        IN \A i \in LexicalRows :
              LET row == search.rows[i]
              IN /\ row.rank_score = ScoreExact
                      <=> ContainsQuery(row.content, query_text)
                 /\ row.rank_score = ScoreTerm
                      <=> /\ ~ContainsQuery(row.content, query_text)
                          /\ ContainsTerm(row.content, query_terms)

\* The query "50%" returned the chunk "1950" with score 1.0.
C27_Witness ==
    /\ search.called
    /\ search.query = <<"5","0","%">>
    /\ \E i \in LexicalRows :
          /\ search.rows[i].content = <<"1","9","5","0">>
          /\ search.rows[i].rank_score = ScoreExact

\* For queries without the LIKE wildcards % and _ and without a backslash
\* the scores are as claimed.
LexicalScoresWithoutWildcards ==
    (search.called
        /\ \A i \in 1..Len(search.query) :
              search.query[i] \notin { "%", "_", "\\" })
    => LET query_text == Strip(search.query)
           query_terms == extract_query_terms(query_text)
       IN \A i \in LexicalRows :
             LET row == search.rows[i]
             IN /\ row.rank_score = ScoreExact
                     <=> ContainsQuery(row.content, query_text)
                /\ row.rank_score = ScoreTerm
                     <=> /\ ~ContainsQuery(row.content, query_text)
                         /\ ContainsTerm(row.content, query_terms)

\* The chunks the lexical statement of the search selects, scored.
Matching ==
    LET query_text == Strip(search.query)
    IN LexicalCandidates(documents, document_chunks, query_text,
                         extract_query_terms(query_text), search.scope)

\* The chunks the fallback statement of the search selects, scored.
FallbackCandidates ==
    { ScoredRow(r, ScoreFallback) : r \in ScopedChunks(search.scope.ids) }

\* The candidates of the tier that answered the search.
Candidates ==
    IF Matching # {} \/ search.scope.none THEN Matching
    ELSE FallbackCandidates

\* a ranks strictly before b by score descending, then chunk_index ascending.
Outranks(a, b) ==
    \/ a.rank_score > b.rank_score
    \/ a.rank_score = b.rank_score /\ a.chunk_index < b.chunk_index

\* a comes strictly before b by doc_id ascending, then chunk_index ascending.
Precedes(a, b) ==
    \/ a.doc_id < b.doc_id
    \/ a.doc_id = b.doc_id /\ a.chunk_index < b.chunk_index

AtMostLimit == Len(search.rows) <= search.n_results

\* The rows are in the order, and no candidate left out ranks before a row.
TopByScoreThenIndex(cands) ==
    /\ \A i, j \in 1..Len(search.rows) :
          i < j => ~Outranks(search.rows[j], search.rows[i])
    /\ \A c \in cands \ Range(search.rows) :
          \A i \in 1..Len(search.rows) : ~Outranks(c, search.rows[i])

TopByDocThenIndex(cands) ==
    /\ \A i, j \in 1..Len(search.rows) :
          i < j => Precedes(search.rows[i], search.rows[j])
    /\ \A c \in cands \ Range(search.rows) :
          \A i \in 1..Len(search.rows) : Precedes(search.rows[i], c)

\* C28 as stated: every search returns at most limit sources, in the order
\* score descending then chunk_index ascending, and they are the top-ranked
\* candidates under that order.
C28_TopRankedAnyTier ==
    search.called =>
        /\ AtMostLimit
        /\ Range(search.rows) \subseteq Candidates
        /\ TopByScoreThenIndex(Candidates)

\* C28: a search answered by the lexical tier returns at most limit sources,
\* in the order score descending then chunk_index ascending, the top-ranked
\* matching chunks under that order; a search answered by the fallback tier
\* returns at most limit sources, the first by doc_id then chunk_index.
C28_TopRanked ==
    search.called =>
        /\ AtMostLimit
        /\ Range(search.rows) \subseteq Candidates
        /\ Len(search.rows) = Min(search.n_results, Cardinality(Candidates))
        /\ IF Matching # {} \/ search.scope.none
           THEN TopByScoreThenIndex(Matching)
           ELSE TopByDocThenIndex(FallbackCandidates)

\* A lexical search with more matching chunks than the limit, of both
\* scores: a chunk scored 1.0 is returned and a matching chunk is left out.
C28_Witness ==
    /\ search.called
    /\ Cardinality(Matching) > search.n_results
    /\ \E a, b \in Matching : a.rank_score # b.rank_score
    /\ search.rows # <<>>
    /\ search.rows[1].rank_score = ScoreExact
    /\ \E c \in Matching : c \notin Range(search.rows)

\* A fallback search over two documents that leaves the first chunk of the
\* second document out for a later chunk of the first.
FallbackKeepsDocumentOrder ==
    /\ search.called
    /\ Matching = {} /\ ~search.scope.none
    /\ \E c \in FallbackCandidates \ Range(search.rows) :
          \E i \in 1..Len(search.rows) : Outranks(c, search.rows[i])

\* No stored chunk contains the query or one of its terms.
NoLexicalMatch ==
    LET query_text == Strip(search.query)
        query_terms == extract_query_terms(query_text)
    IN \A r \in document_chunks :
          r.doc_id \in DOMAIN documents
            => ~ContainsQueryOrTerm(r.content, query_text, query_terms)

\* C29: a search without doc_ids for which no chunk matches lexically
\* returns the empty list.
C29_GlobalNoMatchEmpty ==
    (search.called /\ search.scope.none /\ NoLexicalMatch)
        => search.sources = <<>>

\* The global query "50%" over a store whose chunks contain neither the
\* query nor a term returned a source.
C29_Witness ==
    /\ search.called /\ search.scope.none /\ NoLexicalMatch
    /\ search.query = <<"5","0","%">>
    /\ search.sources # <<>>
    /\ search.sources[1].relevance_score = ScoreExact

\* No source of a search without doc_ids has the fallback score.
GlobalNeverFallback ==
    (search.called /\ search.scope.none)
        => \A i \in 1..Len(search.sources) :
              search.sources[i].relevance_score # ScoreFallback

\* Without the LIKE wildcards in the query the claim holds.
GlobalNoMatchEmptyWithoutWildcards ==
    (search.called /\ search.scope.none /\ NoLexicalMatch
        /\ \A i \in 1..Len(search.query) :
              search.query[i] \notin { "%", "_", "\\" })
        => search.sources = <<>>

\* A global search without wildcards and without a match came back empty
\* over a store that holds chunks.
GlobalNoMatchSearched ==
    /\ search.called /\ search.scope.none /\ NoLexicalMatch
    /\ search.query = <<"t","e","l","l"," ","m","e">>
    /\ document_chunks # {}
    /\ search.sources = <<>>

\* Messages of the history that generate_response and stream_response put
\* into the prompt.
HistoryWindow == 5

\* for msg in conversation_history[-5:]
conversation_window(conversation_history) ==
    LET n == Len(conversation_history)
    IN SubSeq(conversation_history,
              IF n > HistoryWindow THEN n - HistoryWindow + 1 ELSE 1, n)

\* Turn t has called the answer generator.
GeneratorCalled(t) == turn[t].generator # NoArgs

\* C30: the history a turn hands to the answer generator is the messages
\* appended to its thread before its own user message, of which the
\* generator takes the last 5, oldest first; it never holds the turn's own
\* user message, also when another turn runs on the same thread.
C30_HistoryBeforeOwnMessage ==
    \A t \in TurnIds :
        GeneratorCalled(t) =>
            LET handed == turn[t].generator.conversation_history
            IN /\ handed = turn[t].history
               /\ conversation_window(handed)
                     = conversation_window(turn[t].history)
               /\ Position(conversation_window(handed), UserMessage(t)) = 0

\* Two turns overlap on thread "c1": the second appended its user message
\* before the first called the generator, and the first handed over a
\* history that ends with its own user message.
C30_Witness ==
    /\ turn[1].conversation_id = "c1" /\ turn[2].conversation_id = "c1"
    /\ turn[1].arrival = 1 /\ turn[2].arrival = 2
    /\ GeneratorCalled(1)
    /\ turn[1].history = PriorThread
    /\ conversation_window(turn[1].generator.conversation_history)
          = PriorThread \o << UserMessage(1) >>

\* A turn that no other turn on its thread overlaps hands over the messages
\* before its own.
AloneOnThread(t) ==
    \A u \in TurnIds \ { t } :
        turn[u].pc = "idle" \/ turn[u].conversation_id # turn[t].conversation_id

HistoryBeforeOwnMessageAlone ==
    \A t \in TurnIds :
        (GeneratorCalled(t) /\ AloneOnThread(t)
            /\ turn[t].conversation_id \in DOMAIN conversations)
          => turn[t].generator.conversation_history = turn[t].history

-----------------------------------------------------------------------------
(* Properties of web-search planning (SpecPlanning) *)

\* How often the turn called `name`.
CallCount(tn, name) ==
    Cardinality({ i \in 1..Len(tn.calls) : tn.calls[i] = name })

\* Turn t is past PRIORITY 1 (URL extract, or planner and web search).
PastGather(t) == turn[t].calls # <<>>

\* C31: in a turn whose message has no URL, if force_web_search is true or
\* the planner says yes the web search runs exactly once, with the planner's
\* query, or with the raw message when that query is empty; if neither says
\* yes the web search does not run in the turn.
C31_WebSearchOnceWhenPlanned ==
    \A t \in TurnIds :
        (PastGather(t) /\ detect_urls(turn[t].request.message) = <<>>)
          => /\ turn[t].plan.called
             /\ IF turn[t].request.force_web_search \/ turn[t].plan.use
                THEN /\ CallCount(turn[t], "tavily.search") = 1
                     /\ turn[t].web_ran
                     /\ turn[t].web_query =
                          IF turn[t].plan.query # <<>>
                          THEN turn[t].plan.query
                          ELSE turn[t].request.message
                ELSE /\ CallCount(turn[t], "tavily.search") = 0
                     /\ ~turn[t].web_ran
                     /\ turn[t].web_sources = <<>>

\* A completed turn on "cat" for which the planner said yes with the rewrite
\* "cat news": one web search, with "cat news".
C31_Witness ==
    \E t \in TurnIds :
        /\ turn[t].pc = "done"
        /\ turn[t].request.message = <<"c","a","t">>
        /\ ~turn[t].request.force_web_search
        /\ turn[t].plan = Planned([use |-> TRUE, query |-> <<"c","a","t"," ","n","e","w","s">>])
        /\ turn[t].web_query = <<"c","a","t"," ","n","e","w","s">>
        /\ CallCount(turn[t], "tavily.search") = 1

\* A forced turn on " ": the heuristic plan carries the empty query and the
\* web search got the raw message.
EmptyPlanQueryUsesMessage ==
    \E t \in TurnIds :
        /\ turn[t].pc = "done"
        /\ turn[t].request.message = <<" ">>
        /\ turn[t].plan = Planned([use |-> FALSE, query |-> <<>>])
        /\ turn[t].web_ran
        /\ turn[t].web_query = <<" ">>

\* A completed turn for which neither said yes.
NeitherSaidYes ==
    \E t \in TurnIds :
        /\ turn[t].pc = "done"
        /\ turn[t].plan.called /\ ~turn[t].plan.use
        /\ ~turn[t].request.force_web_search
        /\ ~turn[t].web_ran

-----------------------------------------------------------------------------
(* Properties of the planner (SpecPlanner) *)

\* The reply of the model holds a JSON object that parses.
HoldsObject(content) ==
    \E i \in 1..Len(content) : content[i].kind = "object"

\* The first JSON object of the reply.
FirstObject(content) ==
    content[CHOOSE i \in 1..Len(content) :
               /\ content[i].kind = "object"
               /\ \A j \in 1..(i - 1) : content[j].kind # "object"].dict

\* use_web true iff the query matches a freshness pattern, query unchanged.
HeuristicAsClaimed(query) ==
    [use |-> \E p \in HeuristicPatterns : SearchWord(LowerText(query), p),
     query |-> query]

\* C32: plan_web_search returns the heuristic plan (use_web true iff the
\* query matches a freshness pattern, the query unchanged) when the model
\* call raises or its reply holds no JSON object that parses, and the
\* decision of the model otherwise; it raises nothing.
C32_HeuristicOnFailureOnly ==
    planner.called =>
        /\ ~planner.raised
        /\ planner.result =
             IF planner.model_reply.raised
                  \/ ~HoldsObject(planner.model_reply.content)
             THEN HeuristicAsClaimed(planner.query)
             ELSE DecisionPlan(FirstObject(planner.model_reply.content),
                               planner.query)

\* The model replied with the decision (true, "cat news") followed by
\* braces, for the query "cat": the plan is the heuristic one.
C32_Witness ==
    /\ planner.called
    /\ planner.query = <<"c","a","t">>
    /\ Len(planner.model_reply.content) = 2
    /\ planner.model_reply.content[1] =
         [kind |-> "object",
          dict |-> [keys |-> { "use_web_search", "search_query" },
                    use_web_search |-> TRUE, search_query |-> <<"c","a","t"," ","n","e","w","s">>]]
    /\ planner.model_reply.content[2].kind = "braces"
    /\ planner.result = [use |-> FALSE, query |-> <<"c","a","t">>]

\* The reply is as the planner prompt asks: at most one piece with braces,
\* an object with a key.
WellFormedReply(content) ==
    /\ Cardinality({ i \in 1..Len(content) :
                       content[i].kind \in { "object", "braces" } }) <= 1
    /\ \A i \in 1..Len(content) :
          content[i].kind = "object" => content[i].dict.keys # {}
    /\ ~(Len(content) = 1 /\ content[1].kind = "value")

\* For queries without surrounding whitespace and replies as the prompt
\* asks, the plan is as claimed.
PlanAsClaimedOnWellFormedReply ==
    (planner.called /\ Strip(planner.query) = planner.query
        /\ WellFormedReply(planner.model_reply.content))
      => planner.result =
           IF planner.model_reply.raised
                \/ ~HoldsObject(planner.model_reply.content)
           THEN HeuristicAsClaimed(planner.query)
           ELSE DecisionPlan(FirstObject(planner.model_reply.content),
                             planner.query)

\* The heuristic plan for " latest" carries the stripped query.
HeuristicStripsQuery ==
    /\ planner.called /\ planner.model_reply.raised
    /\ planner.query = <<" ","l","a","t","e","s","t">>
    /\ planner.result = [use |-> TRUE, query |-> <<"l","a","t","e","s","t">>]

\* The reply {} gives the heuristic plan.
EmptyObjectIsHeuristic ==
    /\ planner.called
    /\ planner.query = <<"l","a","t","e","s","t"," ","c","a","t">>
    /\ planner.model_reply.content =
         << [kind |-> "object",
             dict |-> [keys |-> {}, use_web_search |-> FALSE,
                       search_query |-> <<>>]] >>
    /\ planner.result = [use |-> TRUE, query |-> <<"l","a","t","e","s","t"," ","c","a","t">>]

\* The plans the chat turns draw from are plans the planner returns for some
\* reply, and all of them for a message without surrounding whitespace.
PlansOfTurnsAreReplies ==
    \A query \in PlannerQueries \cup Messages :
        LET returned == { plan_web_search_reply(query, r) :
                            r \in PlannerReplies }
        IN /\ plan_web_search(query, <<>>, FALSE) \subseteq returned
           /\ Strip(query) = query
                 => plan_web_search(query, <<>>, FALSE) = returned

-----------------------------------------------------------------------------
(* Properties of ingestion attempts without chunks (Spec) *)

BackgroundTask(d) == task[d].kind \in { "file", "url" }

ChunkRows(d) == { r \in document_chunks : r.doc_id = d }

\* The background task of d ran to its end with nothing to persist (empty
\* or whitespace-only extraction, or a text that cleaned to nothing) and no
\* store statement raised on the way.
EndedWithoutChunks(d) ==
    /\ BackgroundTask(d) /\ task[d].pc = "done"
    /\ task[d].chunks = <<>> /\ ~task[d].faulted

\* This step writes status completed to document d.
Completes(d) ==
    /\ d \in DOMAIN documents' /\ documents'[d].status = "completed"
    /\ d \notin DOMAIN documents \/ documents[d].status # "completed"

\* The chunks the attempt on d has inserted so far.
Persisted(d) == task[d].i - 1

\* C33: a step sets a document completed only when its attempt has persisted
\* at least one chunk; an attempt whose extraction gave no text, or a text that
\* cleans to nothing, ends with the status failed and no chunk persisted,
\* and the ended task takes no further step (no retry): only a new call of
\* add_document_chunks from outside starts another attempt.
C33_CompletedOnlyWithChunks ==
    /\ [][ \A d \in IngestIds :
             Completes(d) => Persisted(d) >= 1 ]_vars
    /\ [](\A d \in IngestIds :
            (EndedWithoutChunks(d) /\ Exists(d))
              => /\ documents[d].status = "failed"
                 /\ ChunkRows(d) = {}
                 /\ documents[d].chunk_count = 0)
    /\ [][ \A d \in IngestIds :
             (BackgroundTask(d) /\ task[d].pc = "done")
               => task'[d] = task[d] \/ task'[d].kind = "direct" ]_vars

\* A file whose text cleaned to nothing: process_file saved the file and
\* returned no chunk, and the task ended with the document failed.
C33_Witness ==
    \E d \in IngestIds :
        /\ task[d].kind = "file" /\ EndedWithoutChunks(d)
        /\ d \in files
        /\ Exists(d) /\ documents[d].status = "failed"
        /\ ChunkRows(d) = {}

\* The same for an added URL.
UrlEndedWithoutChunks ==
    \E d \in IngestIds :
        /\ task[d].kind = "url" /\ EndedWithoutChunks(d)
        /\ Exists(d) /\ documents[d].status = "failed"

-----------------------------------------------------------------------------
(* Properties of snippets (SpecSnippets) *)

\* C34: every Source made for a chat turn, from a row of the lexical or the
\* fallback statement, from a web-search result or from an extracted URL,
\* has a snippet of at most 500 characters, whatever the length of the
\* content.
C34_SnippetAtMost500 ==
    snippets.called =>
        \A i \in 1..Len(snippets.sources) :
            Len(snippets.sources[i].snippet) <= SnippetLen

\* A chunk longer than the snippet length went through _rows_to_sources.
C34_Witness ==
    /\ snippets.called
    /\ snippets.kind \in { "lexical", "fallback" }
    /\ Len(snippets.content) > SnippetLen
    /\ snippets.sources # <<>>

\* The snippets of web sources are at most 500 characters; those of internal
\* sources are at most 503, the 500 first characters and the ellipsis.
SnippetAtMost500OrEllipsis ==
    snippets.called =>
        \A i \in 1..Len(snippets.sources) :
            LET s == snippets.sources[i]
            IN IF s.source_type = "web_search"
               THEN s.snippet = SubSeq(snippets.content, 1,
                                       Min(SnippetLen, Len(snippets.content)))
               ELSE /\ Len(s.snippet) <= SnippetLen + 3
                    /\ Len(snippets.content) <= SnippetLen
                         => s.snippet = snippets.content

\* A page longer than the snippet length was cut to it.
WebSnippetCut ==
    /\ snippets.called
    /\ snippets.kind \in { "search", "extract" }
    /\ Len(snippets.content) > SnippetLen
    /\ Len(snippets.sources[1].snippet) = SnippetLen

-----------------------------------------------------------------------------
(* Properties of the done event of a stream (SpecChat, SpecThreads) *)

\* The contents of the token events of a turn, concatenated in order.
TokensJoined(tn) ==
    Flatten([i \in 1..Len(TokenEvents(tn)) |-> TokenEvents(tn)[i].content])

\* The step in which the stream of slot t emits done.
EmitsDone(t) ==
    /\ turn[t].endpoint = "stream"
    /\ turn[t].pc # "done" /\ turn'[t].pc = "done"

DoneEvents(tn) == SelectSeq(tn.events, LAMBDA e : e.event = "done")

\* C35: the step that emits done of a stream carries as answer the
\* concatenation of the token events of the stream, in order, and appends
\* to the thread one assistant message with that string; the stream emits
\* nothing after done, and appends no other assistant message.
C35_DoneAnswerIsTokens ==
    /\ [][ \A t \in TurnIds :
             EmitsDone(t) =>
               LET tn == turn'[t]
                   done == tn.events[Len(tn.events)]
                   cid == tn.conversation_id
               IN /\ done.event = "done"
                  /\ done.answer = TokensJoined(tn)
                  /\ cid \in DOMAIN conversations
                  /\ conversations' =
                       [conversations EXCEPT ![cid] =
                          Append(@, ChatMessage("assistant", done.answer))] ]_vars
    /\ [][ \A t \in TurnIds :
             (turn[t].endpoint = "stream" /\ ~EmitsDone(t)) =>
               \A c \in DOMAIN conversations' \cap DOMAIN conversations :
                  \/ turn'[t] = turn[t]
                  \/ Len(conversations'[c]) <= Len(conversations[c])
                  \/ conversations'[c][Len(conversations'[c])].role = "user" ]_vars
    /\ [](\A t \in TurnIds :
            turn[t].endpoint = "stream" =>
              /\ Len(DoneEvents(turn[t])) = IF turn[t].pc = "done" THEN 1 ELSE 0
              /\ turn[t].pc = "done" =>
                   turn[t].events[Len(turn[t].events)].event = "done")

\* A stream of two tokens reached done: the answer is both, and it is the
\* last message of the thread.
C35_Witness ==
    \E t \in TurnIds :
        /\ turn[t].endpoint = "stream" /\ turn[t].pc = "done"
        /\ Len(TokenEvents(turn[t])) = 2
        /\ turn[t].events[Len(turn[t].events)].answer = <<"o", "k">>
        /\ turn[t].conversation_id \in DOMAIN conversations
        /\ LET h == conversations[turn[t].conversation_id]
           IN h # <<>> /\ h[Len(h)] = ChatMessage("assistant", <<"o", "k">>)

\* A stream without tokens reached done with the empty answer.
EmptyStreamDone ==
    \E t \in TurnIds :
        /\ turn[t].endpoint = "stream" /\ turn[t].pc = "done"
        /\ TokenEvents(turn[t]) = <<>>
        /\ turn[t].events[Len(turn[t].events)].answer = <<>>

-----------------------------------------------------------------------------
(* Properties of the completed status (Spec, SpecStore) *)

\* The rows the attempt on d writes.
ExpectedRows(d) ==
    { [doc_id |-> d, chunk_index |-> k - 1, content |-> task[d].chunks[k],
       total_chunks |-> Len(task[d].chunks)] : k \in 1..Len(task[d].chunks) }

RowKeys(rows) == { <<r.doc_id, r.chunk_index>> : r \in rows }

CompletedAfterDeleteOfChunks ==
    \E d \in IngestIds :
        /\ Exists(d) /\ BackgroundTask(d)
        /\ documents[d].status = "completed"
        /\ ChunkRows(d) = {}

-----------------------------------------------------------------------------
(* Properties of chunk_count after re-ingestion (SpecStore) *)

\* The attempt on d returned from add_document_chunks, the document is
\* completed and every row the attempt wrote is stored.
IngestedAndStored(d) ==
    /\ Exists(d) /\ documents[d].status = "completed"
    /\ task[d].added /\ task[d].pc = "done"
    /\ ExpectedRows(d) \subseteq document_chunks

\* C37: after any sequence of ingestions of one doc_id, also when a later
\* ingestion gave fewer chunks than an earlier one, the chunk_count of the
\* completed document is the number of chunk rows stored for the doc_id.
C37_CountEqualsRows ==
    \A d \in IngestIds :
        IngestedAndStored(d)
            => documents[d].chunk_count = Cardinality(ChunkRows(d))

\* A document ingested with two chunks and then again with one: it is
\* completed with chunk_count 1 while two rows are stored, the row of index
\* 1 being the one of the first ingestion.
C37_Witness ==
    \E d \in IngestIds :
        /\ IngestedAndStored(d)
        /\ task[d].attempt = 2 /\ Len(task[d].chunks) = 1
        /\ documents[d].chunk_count = 1
        /\ Cardinality(ChunkRows(d)) = 2
        /\ \E r \in ChunkRows(d) : r.chunk_index = 1 /\ r.total_chunks = 2

\* After the first ingestion of a doc_id, and after a re-ingestion that gave
\* at least as many chunks as every one before, the count is the number of
\* rows.
CountEqualsRowsWhenNotShorter ==
    \A d \in IngestIds :
        (IngestedAndStored(d)
           /\ \A r \in ChunkRows(d) : r.chunk_index < Len(task[d].chunks))
            => documents[d].chunk_count = Cardinality(ChunkRows(d))

\* A re-ingestion with as many chunks or more has ended.
ReingestedNotShorter ==
    \E d \in IngestIds :
        /\ IngestedAndStored(d) /\ task[d].attempt = 2
        /\ documents[d].chunk_count = Cardinality(ChunkRows(d))

-----------------------------------------------------------------------------
(* Properties of searches beside ingestions (SpecIngestSearch) *)

\* The search call returns in this step.
SearchReturns == ~search.called /\ search'.called

\* C38: a search returns no chunk of a document whose status is failed,
\* also when add_document_chunks failed after some of its inserts and the
\* document was marked failed.
C38_NoChunkOfFailedDocument ==
    [][ SearchReturns =>
          \A i \in 1..Len(search'.rows) :
              documents[search'.rows[i].doc_id].status # "failed" ]_vars

\* An insert of add_document_chunks raised after the first chunk was stored,
\* the handler marked the document failed, and a search returned the stored
\* chunk.
C38_Witness ==
    /\ search.called
    /\ \E i \in 1..Len(search.rows) :
         LET d == search.rows[i].doc_id
         IN /\ Exists(d) /\ documents[d].status = "failed"
            /\ task[d].faulted /\ task[d].pc \in { "done", "finally" }
            /\ task[d].i = 2 /\ Len(task[d].chunks) = 2
            /\ ChunkRows(d) # {}

\* The rows a search returns are stored rows of existing documents, whatever
\* their status.
SearchReturnsStoredRows ==
    [][ SearchReturns =>
          \A i \in 1..Len(search'.rows) :
              /\ Exists(search'.rows[i].doc_id)
              /\ \E r \in document_chunks :
                    /\ r.doc_id = search'.rows[i].doc_id
                    /\ r.chunk_index = search'.rows[i].chunk_index
                    /\ r.content = search'.rows[i].content ]_vars

\* A search returned a chunk of a document that is still processing.
SearchReturnsProcessing ==
    /\ search.called
    /\ \E i \in 1..Len(search.rows) :
         LET d == search.rows[i].doc_id
         IN Exists(d) /\ documents[d].status = "processing"
                      /\ task[d].pc = "insert"

-----------------------------------------------------------------------------
(* Properties of the order of messages in a thread (SpecThreads) *)

Roles(h) == [i \in 1..Len(h) |-> h[i].role]

Alternates(h) ==
    \A i \in 1..Len(h) :
        h[i].role = IF i % 2 = 1 THEN "user" ELSE "assistant"

\* The messages with this role in a history.
CountRole(h, role) == Len(SelectSeq(h, LAMBDA m : m.role = role))

\* C39: the history of every conversation alternates user, assistant,
\* user, ..., starting with a user message, also after a turn that failed
\* and after turns that overlapped on the thread.
C39_HistoryAlternates ==
    \A c \in DOMAIN conversations : Alternates(conversations[c])

\* Two turns overlapped on one thread and both completed: the thread ends
\* with their two user messages followed by their two answers.
C39_Witness ==
    \E c \in DOMAIN conversations :
        LET h == conversations[c]
            n == Len(h)
        IN /\ \A t \in TurnIds : turn[t].pc = "done"
                                   /\ turn[t].conversation_id = c
           /\ n >= 4
           /\ Roles(SubSeq(h, n - 3, n)) =
                <<"user", "user", "assistant", "assistant">>

\* A turn failed after its user message was appended, and the message stays
\* as the last of the thread, without an answer.
FailedTurnLeavesUserMessage ==
    \E t \in TurnIds : \E c \in DOMAIN conversations :
        /\ turn[t].pc = "error" /\ turn[t].conversation_id = c
        /\ "document_store.search" \in turn[t].failures
        /\ conversations[c] # <<>>
        /\ conversations[c][Len(conversations[c])] =
             ChatMessage("user", turn[t].request.message)

\* Every step appends at most one message to a thread; the step that
\* completes a turn appends its one assistant message.
OneMessagePerStep ==
    [][ \A c \in DOMAIN conversations \cap DOMAIN conversations' :
          \/ conversations'[c] = conversations[c]
          \/ /\ Len(conversations'[c]) = Len(conversations[c]) + 1
             /\ SubSeq(conversations'[c], 1, Len(conversations[c])) =
                  conversations[c] ]_vars

-----------------------------------------------------------------------------
(* Properties of the connection pool (SpecPool) *)

\* The operation is not running: never called, returned, or raised.
AtRest(o) == pool.op[o].pc \in { "idle", "returned", "raised" }

\* C40: no more than one pool is created between two resets of _pool, also
\* when store operations call get_pool together while _pool is None, and a
\* store operation that has returned or raised holds no connection.
C40_OnePoolAndReleased ==
    /\ pool.created <= 1
    /\ \A o \in Ops : AtRest(o) => ~pool.op[o].conn

\* Two operations called get_pool while _pool was None, both created a pool,
\* and the first pool is no longer the one _pool names; nothing was reset.
C40_Witness ==
    /\ pool.resets = 0
    /\ pool.created = 2
    /\ \E o1, o2 \in Ops :
         /\ pool.op[o1].runs = 1 /\ pool.op[o2].runs = 1
         /\ pool.op[o1].pool = 1 /\ pool.op[o2].pool = 2
         /\ pool.current = 2

\* An operation that is not running holds no connection, and an operation
\* holds a connection only between acquire and the end of the block.
ReleasedBeforeReturn ==
    \A o \in Ops :
        pool.op[o].conn <=>
            pool.op[o].pc \in { "statement", "release", "release_raise" }

\* A pool is created only by an operation that found _pool None, and an
\* operation that finds _pool set uses that pool.
PoolCreatedOnlyWhenNone ==
    [][ \A o \in Ops :
          /\ (AtRest(o) /\ ~AtRest(o)' /\ pool.current # 0)
               => /\ pool'.op[o].pc = "acquire"
                  /\ pool'.op[o].pool = pool.current
                  /\ pool'.total = pool.total
          /\ pool'.total > pool.total
               => \E p \in Ops : /\ pool.op[p].pc = "create_pool"
                                 /\ pool'.op[p].pool = pool'.total ]_vars

\* An operation returned its result.
OperationReturned ==
    \E o \in Ops : pool.op[o].pc = "returned" /\ pool.op[o].pool # 0

====
